---------------------------- MODULE Spec2Model ----------------------------
(***************************************************************************)
(* A model of rr's Task core (src/src/Task.cc): the ptrace stop machine    *)
(* (resume_execution / wait / did_waitpid), the debug registers, the       *)
(* syscall buffer and the remote-memory path.                              *)
(*                                                                         *)
(* Each area has its own specification over its own variables; the         *)
(* variables of the other areas stay at their initial values.              *)
(*   Spec          the stop machine of one task, registers varying         *)
(*   SpecTicks     the stop machine of one task, ticks varying             *)
(*   SpecDebugRegs set_debug_regs on a stopped task                        *)
(*   SpecSyscallbuf the syscall buffers of a task and of its clone         *)
(*   SpecWait      one call of wait step by step, with fairness            *)
(*   SpecMem       reads and writes of the tracee's memory                 *)
(*   SpecMembers   the tasks' membership in the aggregates                 *)
(*   SpecPrname    the names of a task and of its clone                    *)
(***************************************************************************)
EXTENDS Integers, Sequences, FiniteSets, TLC

(***************************************************************************)
(* Bounds of the model.                                                    *)
(***************************************************************************)
MaxTicks == 2

(***************************************************************************)
(* Kernel ABI numbers used by Task.cc.                                     *)
(***************************************************************************)
SIGTRAP == 5
SIGSTOP == 19
SIGTSTP == 20
TIME_SLICE_SIGNAL == 16
SYSCALL_TRAP == 133
PTRACE_EVENT_EXEC == 4
PTRACE_EVENT_EXIT == 6
PTRACE_EVENT_STOP == 128
X86_TF_FLAG == 256
NORMAL_FLAGS == 582
POLL_IN == 1

\* a wait status packs the ptrace event, the stop signal and the 0x7f stop mark
StatusOf(event, sig) == event * 65536 + sig * 256 + 127

ptrace_exit_wait_status == PTRACE_EVENT_EXIT * 65536 + 34175

stopped_from_status(status) == status % 256 = 127

WSTOPSIG(status) == (status \div 256) % 256

ptrace_event_from_status(status) == (status \div 65536) % 256

\* stop_sig_from_status ASSERTs that the status is a stop status
stop_sig_asserts(status) == ~stopped_from_status(status)

stop_sig_from_status(status) == WSTOPSIG(status)

pending_sig_asserts(status) == status # 0 /\ stop_sig_asserts(status)

pending_sig_from_status(status) ==
  IF status = 0 THEN 0
  ELSE LET sig == stop_sig_from_status(status) IN
       IF sig = SYSCALL_TRAP THEN 0
       ELSE IF sig = SIGTRAP
            THEN (IF ptrace_event_from_status(status) # 0 THEN 0 ELSE SIGTRAP)
            ELSE sig - ((sig \div 128) % 2) * 128

(***************************************************************************)
(* Registers: the general registers Task.cc reads or writes.               *)
(***************************************************************************)
IPs == {1, 2}

BreakpointAddrs == {1}

Archs == {"x86", "x86_64"}

Events == {"syscall", "sigreturn"}

Reg(i, o, f, r, c) == [ip |-> i, original_syscallno |-> o, flags |-> f, r11 |-> r, cx |-> c]

\* register files the kernel can report at a stop: with and without the
\* trap flag in flags and r11, with rcx holding a return address or -1, with
\* original_syscallno reset to -1 or not, at the breakpoint address or past it
RegVals == { Reg(1, 1, 582, 582, -1), Reg(1, -1, 770, 838, 7), Reg(2, -1, 582, 770, 7),
             Reg(2, 1, 770, 838, 7) }

ZeroRegs == [ip |-> 0, original_syscallno |-> 0, flags |-> 0, r11 |-> 0, cx |-> 0]

NoRegsResult == [returned |-> FALSE, value |-> ZeroRegs]

NotObserved == [op |-> "none", was_stopped |-> FALSE, esrch |-> FALSE, last_resume |-> 0,
                aborted |-> FALSE,
                continued |-> FALSE, wrote |-> FALSE, returned |-> FALSE]

NoSiginfo == [si_signo |-> 0, si_code |-> 0, si_fd |-> 0]

TicksFd == 3

singlestep_flag(r) == (r.flags \div X86_TF_FLAG) % 2 = 1

clear_singlestep_flag(r) == [r EXCEPT !.flags = @ - ((@ \div X86_TF_FLAG) % 2) * X86_TF_FLAG]

increment_by_bkpt_insn_length(addr) == addr + 1

fixup_syscall_registers(r, a) ==
  IF a = "x86_64"
  THEN [r EXCEPT !.r11 = @ - ((@ \div X86_TF_FLAG) % 2) * X86_TF_FLAG,
                 !.cx = -1,
                 !.flags = NORMAL_FLAGS]
  ELSE IF a = "x86" THEN [r EXCEPT !.flags = NORMAL_FLAGS]
  ELSE r

(***************************************************************************)
(* State of the stop machine.                                              *)
(***************************************************************************)
VARIABLES
  recording,                        \* session().is_recording()
  arch,                             \* registers.arch()
  is_stopped,
  wait_status,
  registers,                        \* the cached general registers
  pending_siginfo,
  seen_ptrace_exit_event,
  detected_unexpected_exit,
  extra_registers_known,
  ticks,
  address_of_last_execution_resume,
  hpc_started,                      \* hpc: the perf counter is counting
  breakpoints,                      \* as: addresses with a breakpoint
  ev,                               \* RecordTask::ev(): the syscall in progress
  fatal,                            \* an ASSERT or FATAL aborted the tracer
  tracee,                           \* kernel: run state of the tracee
  kstop,                            \* kernel: the stop the tracee last reported
  tregs,                            \* kernel: the tracee's registers
  r11_read,                         \* history: the cached r11 before did_waitpid last normalised it
  committed,                        \* history: the last step was a stop committed by did_waitpid
  after_exec,                       \* history: the stop before the last one was a PTRACE_EVENT_EXEC stop
  orig_at_resume,                   \* history: cached original_syscallno at the last resume
                                    \* from a breakpoint address (0 if not from one)
  ticks_read,                       \* history: sum of the deltas did_waitpid read
  did_waitpid_calls,                \* history: the calls of did_waitpid in the last operation
  regs_result,                      \* history: what regs() returned in the last operation
  observed                          \* history: how the last operation that needs a stop went

stopVars == <<recording, arch, is_stopped, wait_status, registers, pending_siginfo,
              seen_ptrace_exit_event, detected_unexpected_exit, extra_registers_known,
              ticks, address_of_last_execution_resume, hpc_started, breakpoints, ev,
              fatal, tracee, kstop, tregs, r11_read, committed, after_exec, orig_at_resume, ticks_read,
              did_waitpid_calls, regs_result, observed>>

(***************************************************************************)
(* State of the debug registers.                                           *)
(***************************************************************************)
VARIABLES
  dr,                               \* kernel: the tracee's debug registers DR0..DR7
  dbg_ret                           \* history: what set_debug_regs returned, if it was the last operation

debugVars == <<dr, dbg_ret>>

(***************************************************************************)
(* State of the syscall buffers: the tasks' fields, the shadow             *)
(* AddressSpaces, and the kernel's side (the tracees' and the tracer's     *)
(* page tables and the contents of the memory objects).                    *)
(***************************************************************************)
VARIABLES
  tasks,                            \* per task: syscallbuf_child, syscallbuf_hdr, num_syscallbuf_bytes, vm()
  shadow,                           \* per AddressSpace: the mappings it records
  kmem,                             \* kernel: per tracee address space, what each page maps
  tracer_maps,                      \* kernel: what each page of the tracer maps
  content,                          \* kernel: the header bytes of every memory object
  nonce                             \* init_syscall_buffer's static counter

sbVars == <<tasks, shadow, kmem, tracer_maps, content, nonce>>

(***************************************************************************)
(* State of the remote memory: the tracee's bytes and page protections,    *)
(* the protections the shadow AddressSpace records, the mem fd, and the    *)
(* outcome of the last transfer.                                           *)
(***************************************************************************)
VARIABLES
  mem,                              \* kernel: the tracee's bytes
  kprot,                            \* kernel: the protection of each page of the tracee
  as_prot,                          \* the protection of each page's mapping in the AddressSpace
  mem_fd,                           \* as->mem_fd(): "closed", "stale" (opened too early in exec) or "open"
  io                                \* history: the last transfer, its arguments and what it reported

memVars == <<mem, kprot, as_prot, mem_fd, io>>

(***************************************************************************)
(* State of one call of Task::wait taken step by step: where the call is,  *)
(* its arguments and locals, and what the kernel holds for it.             *)
(***************************************************************************)
VARIABLES
  wpc,                              \* "idle", "waitpid" (blocked in waitpid) or "eintr" (waitpid interrupted)
  interrupt_after_elapsed,          \* the argument of wait: TRUE if nonzero
  sent_interrupt,                   \* the local sent_wait_interrupt of wait
  kreport,                          \* kernel: the stop waitpid will report, kind "none" if none
  interrupted,                      \* kernel: a PTRACE_INTERRUPT is pending on the tracee
  wraw,                             \* history: what the last return of waitpid reported
  wloop                             \* history: the PTRACE_INTERRUPTs sent and the timers armed in this wait

waitVars == <<wpc, interrupt_after_elapsed, sent_interrupt, kreport, interrupted, wraw, wloop>>

(***************************************************************************)
(* The life of the task object.                                            *)
(***************************************************************************)
VARIABLES
  unstable,                         \* the field of Task, set by the session
  destroyed,                        \* the destructor ran to its end
  destroy_called                    \* history: destroy() was called

lifeVars == <<unstable, destroyed, destroy_called>>

VARIABLE agg                        \* the live tasks, their references and the aggregates' task sets

VARIABLES
  prname,                           \* the field prname of a task and of its clone
  captured_prname                   \* the prname of a CapturedState

nameVars == <<prname, captured_prname>>

(***************************************************************************)
(* What else the hook at a syscall exit keeps up to date.                  *)
(***************************************************************************)
VARIABLES
  thread_areas,                     \* the field thread_areas_ of a task
  fd_monitored,                     \* the fds that the task's FdTable holds a monitor for
  last_call                         \* history: what the last on_syscall_exit did, if the syscall failed

hookVars == <<thread_areas, fd_monitored, last_call>>

(***************************************************************************)
(* One transfer through the mem fd taken call by call of pread64 and       *)
(* pwrite64.                                                               *)
(***************************************************************************)
VARIABLE xfer                       \* the locals of read_bytes_fallible or write_bytes_helper, and history

(***************************************************************************)
(* The thread areas of a task, of its clone and of a CapturedState, with   *)
(* the history of the descriptors written.                                 *)
(***************************************************************************)
VARIABLE tls

(***************************************************************************)
(* The name, the thread areas and the architecture of each task of a       *)
(* session, and the arguments of the last Task::clone.                     *)
(***************************************************************************)
VARIABLE kin

(***************************************************************************)
(* The kind of the session and what the last Task::~Task did.              *)
(***************************************************************************)
VARIABLE reap

(***************************************************************************)
(* A SIGTRAP stop as compute_trap_reasons finds it, and what it returned.  *)
(***************************************************************************)
VARIABLE trap

(***************************************************************************)
(* Task::spawn: the tracer, the forked child and the history of both.      *)
(***************************************************************************)
VARIABLE sp

(***************************************************************************)
(* The write or writev that exited last and the ranges FdTable::did_write  *)
(* was handed.                                                             *)
(***************************************************************************)
VARIABLE wr

lateVars == <<xfer, tls, kin, reap, trap, sp, wr>>

restVars == <<memVars, waitVars, lifeVars, agg, nameVars, hookVars, lateVars>>

vars == <<stopVars, debugVars, sbVars, restVars>>

\* the task and its tracee as one record, so that a handler's calls compose
Cur == [recording |-> recording, arch |-> arch, is_stopped |-> is_stopped,
        wait_status |-> wait_status, registers |-> registers,
        pending_siginfo |-> pending_siginfo,
        seen_ptrace_exit_event |-> seen_ptrace_exit_event,
        detected_unexpected_exit |-> detected_unexpected_exit,
        extra_registers_known |-> extra_registers_known, ticks |-> ticks,
        address_of_last_execution_resume |-> address_of_last_execution_resume,
        hpc_started |-> hpc_started, breakpoints |-> breakpoints, ev |-> ev,
        fatal |-> fatal, tracee |-> tracee, kstop |-> kstop, tregs |-> tregs,
        r11_read |-> r11_read, committed |-> FALSE, after_exec |-> after_exec,
        orig_at_resume |-> orig_at_resume,
        ticks_read |-> ticks_read, did_waitpid_calls |-> 0,
        regs_result |-> NoRegsResult, observed |-> NotObserved]

\* an aborted tracer has no task state left
Crashed == [recording |-> FALSE, arch |-> "x86", is_stopped |-> FALSE, wait_status |-> 0,
            registers |-> ZeroRegs, pending_siginfo |-> NoSiginfo,
            seen_ptrace_exit_event |-> FALSE, detected_unexpected_exit |-> FALSE,
            extra_registers_known |-> FALSE, ticks |-> 0,
            address_of_last_execution_resume |-> 0, hpc_started |-> FALSE,
            breakpoints |-> {}, ev |-> "syscall", fatal |-> TRUE, tracee |-> "dead",
            kstop |-> "none", tregs |-> ZeroRegs, r11_read |-> 0, committed |-> FALSE,
            after_exec |-> FALSE,
            orig_at_resume |-> 0, ticks_read |-> 0, did_waitpid_calls |-> 0,
            regs_result |-> NoRegsResult, observed |-> NotObserved]

BecomesTask(s0) ==
  LET s == IF s0.fatal THEN Crashed ELSE s0 IN
  /\ recording' = s.recording
  /\ arch' = s.arch
  /\ is_stopped' = s.is_stopped
  /\ wait_status' = s.wait_status
  /\ registers' = s.registers
  /\ pending_siginfo' = s.pending_siginfo
  /\ seen_ptrace_exit_event' = s.seen_ptrace_exit_event
  /\ detected_unexpected_exit' = s.detected_unexpected_exit
  /\ extra_registers_known' = s.extra_registers_known
  /\ ticks' = s.ticks
  /\ address_of_last_execution_resume' = s.address_of_last_execution_resume
  /\ hpc_started' = s.hpc_started
  /\ breakpoints' = s.breakpoints
  /\ ev' = s.ev
  /\ fatal' = s.fatal
  /\ tracee' = s.tracee
  /\ kstop' = s.kstop
  /\ tregs' = s.tregs
  /\ r11_read' = s.r11_read
  /\ committed' = s.committed
  /\ after_exec' = s.after_exec
  /\ orig_at_resume' = s.orig_at_resume
  /\ ticks_read' = s.ticks_read
  /\ did_waitpid_calls' = s.did_waitpid_calls
  /\ regs_result' = s.regs_result
  /\ observed' = s0.observed

\* an operation of the stop machine leaves the other areas alone
Becomes(s) == BecomesTask(s) /\ UNCHANGED <<debugVars, sbVars, restVars>>

Abort(s) == [s EXCEPT !.fatal = TRUE]

\* a ptrace request succeeds only on a tracee that is in a ptrace-stop; on a
\* dead (or running) tracee it fails with ESRCH
ptrace_ok(s) == s.tracee \in {"stopped", "exit_pending"}

\* the tracee is gone; it has no registers any more
Dead(s) == [s EXCEPT !.tracee = "dead", !.tregs = ZeroRegs]

\* the tracee is killed right before the ptrace request named by die
Dies(s, die, at) == IF die = at /\ ptrace_ok(s) THEN Dead(s) ELSE s

DiePoints == {"none", "getregs", "getsiginfo", "setregs"}

ptrace_event(s) == ptrace_event_from_status(s.wait_status)

pending_sig(s) == pending_sig_from_status(s.wait_status)

stop_sig(s) == stop_sig_from_status(s.wait_status)

\* a regs() without its assertion
RegsNoAssert(s) ==
  IF s.fatal THEN s
  ELSE [s EXCEPT !.regs_result = [returned |-> TRUE, value |-> s.registers]]

\* lines 547-550
Task_regs(s) ==
  IF s.fatal THEN s
  ELSE IF ~s.is_stopped THEN Abort(s)
  ELSE [s EXCEPT !.regs_result = [returned |-> TRUE, value |-> s.registers]]

\* ip() is regs().ip(): it fails the assertion of regs()
ip_asserts(s) == ~s.is_stopped

SetRegsMissingPoke(s, regs) ==
  IF s.fatal THEN s
  ELSE IF ~s.is_stopped THEN Abort(s)
  ELSE [s EXCEPT !.registers = regs]

set_regs(s, regs) ==
  IF s.fatal THEN s
  ELSE IF ~s.is_stopped THEN Abort(s)
  ELSE IF ptrace_ok(s) THEN [s EXCEPT !.registers = regs, !.tregs = regs]
  ELSE [s EXCEPT !.registers = regs]

is_in_non_sigreturn_exit_syscall(s) ==
  IF stop_sig(s) # SYSCALL_TRAP THEN FALSE
  ELSE IF s.recording THEN s.ev # "sigreturn"
  ELSE TRUE


(***************************************************************************)
(* Task::did_waitpid, as the sequence of its steps on a frame.  status is  *)
(* the wait status handed in, has_override and override the caller's       *)
(* siginfo, more_ticks what hpc.read_ticks() returns, ksiginfo what        *)
(* PTRACE_GETSIGINFO would return, die the ptrace request (if any) right   *)
(* before which the tracee is killed.                                      *)
(***************************************************************************)
DidWaitpidTicksOverwritten(s, more_ticks) ==
  [s EXCEPT !.ticks = more_ticks, !.hpc_started = FALSE, !.ticks_read = @ + more_ticks]

did_waitpid_ticks(s, more_ticks) ==
  [s EXCEPT !.ticks = @ + more_ticks, !.hpc_started = FALSE, !.ticks_read = @ + more_ticks]

\* line 1141 reads ptrace_event(), the event of wait_status, which still is
\* the status of the previous stop: wait_status is assigned at line 1162
did_waitpid_skips_getregs(s) == ptrace_event(s) = PTRACE_EVENT_EXEC

DidWaitpidNoRestore(s, original_syscallno) == s

did_waitpid_restore(s, original_syscallno) ==
  [s EXCEPT !.registers.original_syscallno = original_syscallno]

DidWaitpidNoFixup(s) == s

did_waitpid_fixup(s) ==
  [s EXCEPT !.registers = fixup_syscall_registers(s.registers, s.arch)]

\* the locals of one call of did_waitpid, with the task t they act on
Frame(t, status, has_override, override, more_ticks, ksiginfo, die) ==
  [t |-> t, status |-> status, has_override |-> has_override, override |-> override,
   more_ticks |-> more_ticks, ksiginfo |-> ksiginfo, die |-> die,
   original_syscallno |-> 0, skipped |-> FALSE, need_to_set_regs |-> FALSE]

AbortFrame(f) == [f EXCEPT !.t = Abort(f.t)]

\* lines 1130-1138
dw_ticks(f) ==
  IF f.t.fatal THEN f
  ELSE [f EXCEPT !.t = [did_waitpid_ticks(f.t, f.more_ticks) EXCEPT !.did_waitpid_calls = @ + 1],
                 !.original_syscallno = f.t.registers.original_syscallno]

dw_getregs_result(t, f) ==
  IF ptrace_ok(t) THEN [f EXCEPT !.t = [t EXCEPT !.registers = t.tregs]]
  ELSE [f EXCEPT !.t = t, !.status = ptrace_exit_wait_status]

\* lines 1139-1149
dw_getregs(f) ==
  IF f.t.fatal THEN f
  ELSE IF did_waitpid_skips_getregs(f.t) THEN [f EXCEPT !.skipped = TRUE]
  ELSE dw_getregs_result(Dies(f.t, f.die, "getregs"), f)

dw_getsiginfo_result(t, f) ==
  IF ptrace_ok(t) THEN [f EXCEPT !.t = [t EXCEPT !.pending_siginfo = f.ksiginfo]]
  ELSE [f EXCEPT !.t = t, !.status = ptrace_exit_wait_status]

\* lines 1150-1159
dw_siginfo(f) ==
  IF f.t.fatal THEN f
  ELSE IF pending_sig_asserts(f.status) THEN AbortFrame(f)
  ELSE IF pending_sig_from_status(f.status) = 0 THEN f
  ELSE IF f.has_override THEN [f EXCEPT !.t.pending_siginfo = f.override]
  ELSE dw_getsiginfo_result(Dies(f.t, f.die, "getsiginfo"), f)

\* lines 1161-1165
dw_commit(f) ==
  IF f.t.fatal THEN f
  ELSE [f EXCEPT !.t.is_stopped = TRUE,
                 !.t.wait_status = f.status,
                 !.t.seen_ptrace_exit_event =
                    @ \/ ptrace_event_from_status(f.status) = PTRACE_EVENT_EXIT,
                 !.t.r11_read = f.t.registers.r11,
                 !.t.committed = TRUE,
                 !.t.after_exec = f.skipped]

\* lines 1167-1171
dw_singlestep(f) ==
  IF f.t.fatal THEN f
  ELSE IF singlestep_flag(f.t.registers)
  THEN [f EXCEPT !.t.registers = clear_singlestep_flag(@), !.need_to_set_regs = TRUE]
  ELSE f

\* lines 1173-1187
dw_breakpoint(f) ==
  IF f.t.fatal THEN f
  ELSE IF ~(/\ f.t.address_of_last_execution_resume \in f.t.breakpoints
            /\ pending_sig(f.t) = SIGTRAP
            /\ ptrace_event(f.t) = 0)
  THEN f
  ELSE IF \/ f.t.registers.ip #
               increment_by_bkpt_insn_length(f.t.address_of_last_execution_resume)
          \/ f.more_ticks # 0
  THEN AbortFrame(f)
  ELSE [f EXCEPT !.t = did_waitpid_restore(f.t, f.original_syscallno),
                 !.need_to_set_regs = TRUE]

\* lines 1189-1193
dw_exit_syscall(f) ==
  IF f.t.fatal THEN f
  ELSE IF stop_sig_asserts(f.t.wait_status) THEN AbortFrame(f)
  ELSE IF is_in_non_sigreturn_exit_syscall(f.t)
  THEN [f EXCEPT !.t = did_waitpid_fixup(f.t), !.need_to_set_regs = TRUE]
  ELSE f

\* lines 1194-1196
dw_set_regs(f) ==
  IF f.t.fatal \/ ~f.need_to_set_regs THEN f.t
  ELSE set_regs(Dies(f.t, f.die, "setregs"), f.t.registers)

did_waitpid(f) ==
  dw_set_regs(dw_exit_syscall(dw_breakpoint(dw_singlestep(dw_commit(dw_siginfo(
    dw_getregs(dw_ticks(f))))))))

(***************************************************************************)
(* The kernel's side of a stop.                                            *)
(***************************************************************************)
KStops ==
  { [kind |-> "bkpt", status |-> StatusOf(0, SIGTRAP)],
    [kind |-> "trap", status |-> StatusOf(0, SIGTRAP)],
    [kind |-> "signal", status |-> StatusOf(0, SIGSTOP)],
    [kind |-> "syscall_entry", status |-> StatusOf(0, SYSCALL_TRAP)],
    [kind |-> "syscall_exit", status |-> StatusOf(0, SYSCALL_TRAP)],
    [kind |-> "exec", status |-> StatusOf(PTRACE_EVENT_EXEC, SIGTRAP)],
    [kind |-> "exit", status |-> StatusOf(PTRACE_EVENT_EXIT, SIGTRAP)],
    [kind |-> "interrupt", status |-> StatusOf(PTRACE_EVENT_STOP, SIGTRAP)],
    [kind |-> "killed", status |-> 9] }

\* hpc.read_ticks(), line 1130: what a counter reads that counts since its
\* reset, and what a stopped one reads
read_ticks(s) == IF s.hpc_started THEN 0 .. 1 ELSE {0}

\* the stops a running tracee can report, with the registers it then has
\* and the branches it retired
CanStop(s, k, regs, d) ==
  /\ s.tracee = "running"
  /\ d \in read_ticks(s)
  /\ s.ticks + d <= MaxTicks
  /\ s.ticks_read + d <= MaxTicks
  /\ k.kind = "bkpt" =>
       /\ s.address_of_last_execution_resume \in s.breakpoints
       /\ regs.ip = increment_by_bkpt_insn_length(s.address_of_last_execution_resume)
       /\ d = 0
  /\ k.kind = "killed" => d = 0

KernelStop(s, k, regs) ==
  IF k.kind = "killed" THEN [s EXCEPT !.tracee = "reaped", !.kstop = "killed", !.tregs = ZeroRegs]
  ELSE [s EXCEPT !.tracee = "stopped", !.kstop = k.kind, !.tregs = regs]

KSiginfo(k) ==
  [si_signo |-> pending_sig_from_status(k.status),
   si_code |-> 0,
   si_fd |-> 0]

TimeSliceSiginfo == [si_signo |-> TIME_SLICE_SIGNAL, si_code |-> POLL_IN, si_fd |-> TicksFd]

is_signal_triggered_by_ptrace_interrupt(sig) == sig \in {SIGTRAP, SIGSTOP, 0}

(***************************************************************************)
(* Task::wait.  The waitpid loop is taken as one step: k, regs and d are   *)
(* what the kernel reports, zombie says that waitpid was interrupted and   *)
(* the dead process found to be a zombie, sent_wait_interrupt that a       *)
(* PTRACE_INTERRUPT was sent before waitpid returned.                      *)
(***************************************************************************)
\* lines 975-1009: what waitpid, or the zombie check, leaves in status, and
\* the kernel's side of it
wait_report(s, k, regs, zombie) ==
  IF zombie
  THEN [t |-> s, status |-> ptrace_exit_wait_status, ksiginfo |-> NoSiginfo]
  ELSE IF s.tracee = "reaped"
  THEN [t |-> Abort(s), status |-> 0, ksiginfo |-> NoSiginfo]
  ELSE IF s.tracee = "dead"
  THEN [t |-> [s EXCEPT !.tracee = "reaped", !.kstop = "killed"], status |-> 9,
        ksiginfo |-> NoSiginfo]
  ELSE [t |-> KernelStop(s, k, regs), status |-> k.status, ksiginfo |-> KSiginfo(k)]

\* a wait that rewrites a status that is not a stop whatever it has seen
WaitExitCodeNoAssert(r) ==
  IF r.t.fatal \/ stopped_from_status(r.status) THEN r
  ELSE [r EXCEPT !.status = ptrace_exit_wait_status]

\* lines 1011-1026
wait_exit_code(r) ==
  IF r.t.fatal \/ stopped_from_status(r.status) THEN r
  ELSE IF r.t.seen_ptrace_exit_event THEN [r EXCEPT !.t = Abort(r.t)]
  ELSE [r EXCEPT !.status = ptrace_exit_wait_status]

WaitFrameNoRewrite(r, sent_wait_interrupt, d, die) ==
  Frame(r.t, r.status, FALSE, NoSiginfo, d, r.ksiginfo, die)

\* lines 1036-1057
wait_frame(r, sent_wait_interrupt, d, die) ==
  IF /\ sent_wait_interrupt
     /\ ptrace_event_from_status(r.status) = PTRACE_EVENT_STOP
     /\ is_signal_triggered_by_ptrace_interrupt(WSTOPSIG(r.status))
  THEN Frame(r.t, StatusOf(0, TIME_SLICE_SIGNAL), TRUE, TimeSliceSiginfo, d, r.ksiginfo, die)
  ELSE Frame(r.t, r.status, FALSE, NoSiginfo, d, r.ksiginfo, die)

\* a wait that leaves detected_unexpected_exit set
WaitKeepsFlag(s, k, regs, d, die, sent_wait_interrupt, zombie) ==
  IF s.fatal THEN s
  ELSE IF s.detected_unexpected_exit
  THEN did_waitpid(Frame(s, ptrace_exit_wait_status, FALSE, NoSiginfo, d, NoSiginfo, die))
  ELSE did_waitpid(wait_frame(wait_exit_code(wait_report(s, k, regs, zombie)),
                              sent_wait_interrupt, d, die))

\* a wait whose unexpected-exit path returns without did_waitpid
WaitNoCommitOnExit(s, k, regs, d, die, sent_wait_interrupt, zombie) ==
  IF s.fatal THEN s
  ELSE IF s.detected_unexpected_exit
  THEN [s EXCEPT !.detected_unexpected_exit = FALSE]
  ELSE did_waitpid(wait_frame(wait_exit_code(wait_report(s, k, regs, zombie)),
                              sent_wait_interrupt, d, die))

wait(s, k, regs, d, die, sent_wait_interrupt, zombie) ==
  IF s.fatal THEN s
  ELSE IF s.detected_unexpected_exit
  THEN [did_waitpid(Frame(s, ptrace_exit_wait_status, FALSE, NoSiginfo, d, NoSiginfo, die))
          EXCEPT !.detected_unexpected_exit = FALSE]
  ELSE did_waitpid(wait_frame(wait_exit_code(wait_report(s, k, regs, zombie)),
                              sent_wait_interrupt, d, die))

\* what the environment may hand to one call of wait
WaitEnv(s, k, regs, d, die, sent_wait_interrupt, zombie) ==
  /\ d \in read_ticks(s)
  /\ s.ticks + d <= MaxTicks
  /\ s.ticks_read + d <= MaxTicks
  /\ sent_wait_interrupt => s.recording
  /\ \/ s.detected_unexpected_exit /\ ~zombie /\ ~sent_wait_interrupt
          /\ k.kind = "exit" /\ regs = s.tregs
     \/ ~s.detected_unexpected_exit /\ zombie /\ s.tracee = "dead"
          /\ k.kind = "exit" /\ regs = s.tregs
     \/ ~s.detected_unexpected_exit /\ ~zombie /\ s.tracee \in {"dead", "reaped"}
          /\ k.kind = "killed" /\ d = 0
     \/ ~s.detected_unexpected_exit /\ ~zombie /\ CanStop(s, k, regs, d)

(***************************************************************************)
(* Task::resume_execution up to its call of wait.                          *)
(***************************************************************************)
\* lines 685-689
\* a resume_execution that resets the counter whatever the tick period
ReResetHpcAlways(s, tick_period) == [s EXCEPT !.hpc_started = TRUE]

re_reset_hpc(s, tick_period) ==
  IF tick_period # "RESUME_NO_TICKS" THEN [s EXCEPT !.hpc_started = TRUE] ELSE s

\* line 693; ip() ASSERTs is_stopped
re_record_ip(s) ==
  IF ip_asserts(s) THEN Abort(s)
  ELSE [s EXCEPT !.address_of_last_execution_resume = s.registers.ip,
                 !.orig_at_resume = IF s.registers.ip \in s.breakpoints
                                    THEN s.registers.original_syscallno ELSE 0]

\* lines 696-724: when recording, waitpid(WNOHANG) looks for the exit stop of
\* a tracee a SIGKILL woke up; otherwise the tracee is resumed
re_resume(s) ==
  IF s.fatal THEN s
  ELSE IF s.recording /\ s.tracee \in {"dead", "reaped"} THEN Abort(s)
  ELSE IF s.recording /\ s.tracee = "exit_pending"
  THEN [s EXCEPT !.detected_unexpected_exit = TRUE, !.tracee = "stopped", !.kstop = "exit"]
  ELSE IF s.tracee = "stopped"
  THEN (IF s.kstop = "exit" THEN Dead(s) ELSE [s EXCEPT !.tracee = "running"])
  ELSE IF s.tracee = "exit_pending" THEN Dead(s)
  ELSE s

\* lines 726-727
\* a resume that forgets the exit event
ReMarkRunningForgetsExit(s) ==
  IF s.fatal THEN s
  ELSE [s EXCEPT !.is_stopped = FALSE, !.extra_registers_known = FALSE,
                 !.seen_ptrace_exit_event = FALSE]

re_mark_running(s) ==
  IF s.fatal THEN s ELSE [s EXCEPT !.is_stopped = FALSE, !.extra_registers_known = FALSE]

resume_execution(s, tick_period) ==
  IF s.fatal THEN s
  ELSE re_mark_running(re_resume(re_record_ip(re_reset_hpc(s, tick_period))))

TickPeriods == {"RESUME_NO_TICKS", "RESUME_UNLIMITED_TICKS"}


(***************************************************************************)
(* Other operations of the task on the stop machine's state.               *)
(***************************************************************************)
syscall_number_for_execve(a) == IF a = "x86_64" THEN 59 ELSE 11

\* Task::post_exec, lines 494-505.  The result of PTRACE_GETREGS is not
\* looked at: on a dead tracee the cache is filled from the uninitialized
\* buffer, whose content is garbage
post_exec(s, a, garbage) ==
  IF s.fatal THEN s ELSE
  LET s1 == [s EXCEPT !.arch = a]
      s2 == [s1 EXCEPT !.registers = IF ptrace_ok(s1) THEN s1.tregs ELSE garbage]
  IN set_regs(s2, [s2.registers EXCEPT !.original_syscallno = syscall_number_for_execve(a)])

\* Task::copy_state, lines 1579-1580 and 1624-1628, for a captured state
\* that holds no syscall buffer
copy_state(s, state) ==
  IF s.fatal THEN s ELSE
  LET s1 == set_regs(s, state.regs)
  IN IF s1.fatal THEN s1
     ELSE [s1 EXCEPT !.extra_registers_known = TRUE,
                     !.wait_status = state.wait_status,
                     !.ticks = state.ticks]

flush_inconsistent_state(s) == [s EXCEPT !.ticks = 0]

TaskDtorNoAssert(s, is_unstable) == s

\* Task::~Task, lines 94-109; the waitpid that reaps the zombie returns the
\* thread group's id or fails with ECHILD or ESRCH
Task_dtor(s, is_unstable) ==
  IF s.fatal \/ is_unstable THEN s
  ELSE IF ~s.seen_ptrace_exit_event THEN Abort(s)
  ELSE s

\* Task::destroy, lines 80-91: PTRACE_DETACH may fail
destroy(s, is_unstable, fd) ==
  IF s.fatal THEN s
  ELSE IF fd = "closed" THEN Abort(s)
  ELSE Task_dtor(s, is_unstable)

\* lines 1997-2003: any errno of the request fails the assertion, ESRCH too
xptrace(s) ==
  IF s.fatal THEN s
  ELSE IF ptrace_ok(s) THEN s
  ELSE Abort(s)

\* lines 200-208
get_ptrace_eventmsg_pid(s) == xptrace(s)

\* lines 210-218
get_ptrace_eventmsg_seccomp_data(s) == xptrace(s)

\* Task::extra_regs, lines 575-612: the cache is filled by xptrace, which
\* ASSERTs that the request succeeded; in_ptrace_stop says that the kernel
\* has the tracee in a ptrace-stop
extra_regs(s, in_ptrace_stop) ==
  IF s.fatal \/ s.extra_registers_known THEN s
  ELSE IF in_ptrace_stop THEN [s EXCEPT !.extra_registers_known = TRUE]
  ELSE Abort(s)

\* Task::set_extra_regs, lines 740-769, for registers that are not empty and
\* in XSAVE format; the request is made by ptrace_if_alive
set_extra_regs(s) ==
  IF s.fatal THEN s ELSE [s EXCEPT !.extra_registers_known = TRUE]

\* what capture_state() of another task can hold
CapturedStates ==
  [regs : {Reg(1, 1, 582, 582, -1)},
   wait_status : {StatusOf(0, SYSCALL_TRAP)},
   ticks : 0 .. MaxTicks]

(***************************************************************************)
(* Task::set_debug_regs.  regs is the list of watchpoints asked for, each  *)
(* [addr, num_bytes, type], type being the two type bits of its DR7 slot.  *)
(* The kernel refuses the fail_addr-th address write (0: none) and, if     *)
(* fail_dr7, the write of the packed DR7; the tracee is killed right       *)
(* before the die_at-th ptrace request (0: never).                         *)
(***************************************************************************)
NUM_X86_WATCHPOINTS == 4

MaxWatchpoints == 5

\* -1 stands for the FATAL of an unsupported size
num_bytes_to_dr_len(num_bytes) ==
  IF num_bytes = 1 THEN 0
  ELSE IF num_bytes = 2 THEN 1
  ELSE IF num_bytes = 4 THEN 3
  ELSE IF num_bytes = 8 THEN 2
  ELSE -1

Pow2(n) == 2 ^ n

\* a register word, as its low and its high 16 bits
Word(lo, hi) == [lo |-> lo, hi |-> hi]

ZeroWord == Word(0, 0)

WordOr(a, b) == Word(a.lo + b.lo, a.hi + b.hi)

\* CASE_ENABLE_DR: the local-enable bit of slot i (bit 2i), its type (bits
\* 16+4i, 17+4i) and its length (bits 18+4i, 19+4i)
EnableDr(i, reg) ==
  Word(Pow2(2 * i),
       reg.type * Pow2(4 * i)
         + num_bytes_to_dr_len(reg.num_bytes) * Pow2(2 + 4 * i))

NoDebugRegs == [i \in 0 .. 7 |-> ZeroWord]

\* the locals of one call, with the kernel's side: registers and tracee
DebugFrame(regs, fail_addr, fail_dr7, die_at) ==
  [dr |-> dr, tracee |-> tracee, fatal |-> FALSE, regs |-> regs, dr7 |-> ZeroWord,
   fail_addr |-> fail_addr, fail_dr7 |-> fail_dr7, die_at |-> die_at,
   n |-> 0, errno |-> "none", ret |-> "none"]

\* one PTRACE_POKEUSER of a debug register
poke_request(f) ==
  [f EXCEPT !.n = @ + 1,
            !.tracee = IF f.n + 1 = f.die_at /\ @ \in {"stopped", "exit_pending"}
                       THEN "dead" ELSE @]

poke_result(f, regno, value, refused) ==
  IF f.tracee \notin {"stopped", "exit_pending"} THEN [f EXCEPT !.errno = "ESRCH"]
  ELSE IF refused THEN [f EXCEPT !.errno = "EIO"]
  ELSE [f EXCEPT !.dr[regno] = value, !.errno = "none"]

fallible_poke(f, regno, value, refused) ==
  poke_result(poke_request(f), regno, value, refused)

\* ptrace_if_alive: ESRCH is let through, any other error is an ASSERT
ptrace_if_alive_checked(f) ==
  IF f.errno \notin {"none", "ESRCH"} THEN [f EXCEPT !.fatal = TRUE] ELSE f

SdrNoClear(f) == f

\* lines 821-827
sdr_clear(f) ==
  ptrace_if_alive_checked(fallible_poke(
    ptrace_if_alive_checked(fallible_poke(f, 6, ZeroWord, FALSE)), 7, ZeroWord, FALSE))

\* lines 828-830
sdr_size(f) ==
  IF f.fatal THEN f
  ELSE IF Len(f.regs) > NUM_X86_WATCHPOINTS THEN [f EXCEPT !.ret = "false"]
  ELSE f

sdr_enable(f, i) ==
  IF f.errno # "none" THEN [f EXCEPT !.ret = "false"]
  ELSE IF num_bytes_to_dr_len(f.regs[i + 1].num_bytes) < 0 THEN [f EXCEPT !.fatal = TRUE]
  ELSE [f EXCEPT !.dr7 = WordOr(@, EnableDr(i, f.regs[i + 1]))]

RECURSIVE sdr_loop(_, _)
\* lines 832-852
sdr_loop(f, i) ==
  IF f.fatal \/ f.ret # "none" \/ i >= Len(f.regs) THEN f
  ELSE sdr_loop(sdr_enable(fallible_poke(f, i, Word(f.regs[i + 1].addr, 0), f.fail_addr = i + 1),
                          i),
                i + 1)

sdr_dr7_result(f) == [f EXCEPT !.ret = IF f.errno = "none" THEN "true" ELSE "false"]

\* lines 854-855
sdr_dr7(f) ==
  IF f.fatal \/ f.ret # "none" THEN f
  ELSE sdr_dr7_result(fallible_poke(f, 7, f.dr7, f.fail_dr7))

set_debug_regs(f) == sdr_dr7(sdr_loop(sdr_size(sdr_clear(f)), 0))

(***************************************************************************)
(* The syscall buffer.  Addresses and lengths count pages; address 0 is    *)
(* nullptr.  A page maps [obj, off]: page off of memory object obj, obj 0  *)
(* for an unmapped page.  Objects 1..MaxNonce are the shmem segments,      *)
(* AnonObj the anonymous memory of the forked child.  Of an object's       *)
(* bytes the model keeps the header's locked byte and one data byte.       *)
(***************************************************************************)
NumPages == 3

MaxNonce == 1

SYSCALLBUF_BUFFER_SIZE == 2

Pages == 1 .. NumPages

TaskIds == {"parent", "child"}

AnonObj == MaxNonce + 1

NoPage == [obj |-> 0, off |-> 0]

Hdr(locked, data) == [locked |-> locked, data |-> data]

InRange(p, a, n) == a <= p /\ p < a + n

\* the kernel's mmap, munmap and mremap on one page table
k_free(k, a, n) == a >= 1 /\ a + n - 1 <= NumPages /\ \A p \in a .. a + n - 1 : k[p] = NoPage

k_map(k, a, n, obj) ==
  [p \in Pages |-> IF InRange(p, a, n) THEN [obj |-> obj, off |-> p - a] ELSE k[p]]

k_unmap(k, a, n) == [p \in Pages |-> IF InRange(p, a, n) THEN NoPage ELSE k[p]]

k_remap(k, old, oldn, new, newn) ==
  [p \in Pages |-> IF InRange(p, new, newn)
                   THEN [obj |-> k[old].obj, off |-> k[old].off + (p - new)]
                   ELSE IF InRange(p, old, oldn) THEN NoPage ELSE k[p]]

\* mremap succeeds on a range that is one mapping, shrunk where it is or
\* moved to a range apart from it, onto free pages
k_can_remap(k, old, oldn, new, newn) ==
  /\ old + oldn - 1 <= NumPages /\ new + newn - 1 <= NumPages
  /\ newn <= oldn
  /\ \A p \in old .. old + oldn - 1 :
        k[p].obj # 0 /\ k[p].obj = k[old].obj /\ k[p].off = k[old].off + (p - old)
  /\ IF new = old THEN newn # oldn
     ELSE \A p \in new .. new + newn - 1 : ~InRange(p, old, oldn)
  /\ \A p \in new .. new + newn - 1 : InRange(p, old, oldn) \/ k[p] = NoPage

\* AddressSpace: a set of mappings, each of len pages at start and of the
\* pages of obj from off on
Mapping(a, n, prot, flags, off, obj) ==
  [start |-> a, len |-> n, prot |-> prot, flags |-> flags, off |-> off, obj |-> obj]

\* the part of mapping mp inside [lo, hi), if any
Piece(mp, lo, hi) ==
  IF lo < hi THEN {[mp EXCEPT !.start = lo, !.len = hi - lo, !.off = @ + (lo - mp.start)]}
  ELSE {}

Max(a, b) == IF a > b THEN a ELSE b

Min(a, b) == IF a < b THEN a ELSE b

as_unmap(m, a, n) ==
  UNION { Piece(mp, mp.start, Min(a, mp.start + mp.len))
            \cup Piece(mp, Max(a + n, mp.start), mp.start + mp.len) : mp \in m }

as_map(m, a, n, prot, flags, off, obj) ==
  as_unmap(m, a, n) \cup {Mapping(a, n, prot, flags, off, obj)}

as_protect(m, a, n, prot) ==
  as_unmap(m, a, n)
    \cup UNION { { [q EXCEPT !.prot = prot] :
                     q \in Piece(mp, Max(a, mp.start), Min(a + n, mp.start + mp.len)) } : mp \in m }

as_remap(m, old, oldn, new, newn) ==
  UNION { as_map(as_unmap(m, old, oldn), new, newn, mp.prot, mp.flags,
                 mp.off + (old - mp.start), mp.obj) :
            mp \in {q \in m : InRange(old, q.start, q.len)} }

\* Task::Task
NewTask(vm, same_session) ==
  [state |-> "live", vm |-> vm, same_session |-> same_session, syscallbuf_child |-> 0,
   syscallbuf_hdr |-> 0, num_syscallbuf_bytes |-> 0, shmem |-> 0,
   desched_fd_child |-> -1, kfd_open |-> FALSE, injected_close |-> FALSE]

NoTask == [NewTask(0, TRUE) EXCEPT !.state = "none"]

SbCur ==
  [tasks |-> tasks, shadow |-> shadow, kmem |-> kmem, tracer_maps |-> tracer_maps,
   content |-> content, nonce |-> nonce]

\* lines 1670-1709: the segment is created, sized and mapped by the tracer
\* at map_addr
isb_map_tracer(s, map_addr) ==
  [s EXCEPT !.nonce = @ + 1,
            !.content[s.nonce + 1] = Hdr(0, 0),
            !.tracer_maps = k_map(@, map_addr, SYSCALLBUF_BUFFER_SIZE, s.nonce + 1)]

IsbMapTraceePrivate(s, t, child_map_addr) ==
  [s EXCEPT !.kmem[s.tasks[t].vm] = k_map(@, child_map_addr, SYSCALLBUF_BUFFER_SIZE, AnonObj)]

\* lines 1711-1712: the tracee maps the segment, MAP_SHARED
isb_map_tracee(s, t, child_map_addr) ==
  [s EXCEPT !.kmem[s.tasks[t].vm] = k_map(@, child_map_addr, SYSCALLBUF_BUFFER_SIZE, s.nonce)]

\* lines 1701, 1716-1719
isb_fields(s, t, map_addr, child_map_addr) ==
  [s EXCEPT !.tasks[t].num_syscallbuf_bytes = SYSCALLBUF_BUFFER_SIZE,
            !.tasks[t].syscallbuf_child = child_map_addr,
            !.tasks[t].syscallbuf_hdr = map_addr,
            !.tasks[t].shmem = s.nonce,
            !.content[s.tracer_maps[map_addr].obj] = Hdr(0, 0)]

\* lines 1708-1710, 1721-1724
isb_shadow(s, t, map_hint, child_map_addr) ==
  [s EXCEPT !.shadow[s.tasks[t].vm] =
              as_map(@, child_map_addr, SYSCALLBUF_BUFFER_SIZE, "rw",
                     IF map_hint # 0 THEN {"MAP_SHARED", "MAP_FIXED"} ELSE {"MAP_SHARED"},
                     0, s.nonce)]

init_syscall_buffer(s, t, map_hint, map_addr, child_map_addr) ==
  isb_shadow(isb_fields(isb_map_tracee(isb_map_tracer(s, map_addr), t, child_map_addr),
                        t, map_addr, child_map_addr),
             t, map_hint, child_map_addr)

\* the descriptor the tracee passes as desched_counter_fd
DeschedFds == {1}

\* init_buffers_arch, lines 249-255, with the syscall buffer enabled; the
\* tracee of a recording has opened the descriptor, in a replay the call
\* that opened it was emulated
init_buffers_arch(s, t, map_hint, map_addr, child_map_addr, fd, is_recording) ==
  [init_syscall_buffer(s, t, map_hint, map_addr, child_map_addr) EXCEPT
     !.tasks[t].desched_fd_child = fd,
     !.tasks[t].kfd_open = is_recording /\ fd >= 0]

\* lines 280-282
destroy_unmap(s, t) ==
  [s EXCEPT !.kmem[s.tasks[t].vm] =
               k_unmap(@, s.tasks[t].syscallbuf_child, s.tasks[t].num_syscallbuf_bytes),
            !.shadow[s.tasks[t].vm] =
               as_unmap(@, s.tasks[t].syscallbuf_child, s.tasks[t].num_syscallbuf_bytes)]

\* a teardown that closes the descriptor in a replay too
DestroyDeschedAlways(s, t, is_recording) ==
  IF s.tasks[t].desched_fd_child >= 0
  THEN [s EXCEPT !.tasks[t].kfd_open = FALSE, !.tasks[t].injected_close = TRUE]
  ELSE s

\* lines 283-289
destroy_desched(s, t, is_recording) ==
  IF s.tasks[t].desched_fd_child >= 0 /\ is_recording
  THEN [s EXCEPT !.tasks[t].kfd_open = FALSE, !.tasks[t].injected_close = TRUE]
  ELSE s

\* lines 274-291; the task has left its last stop and waits to be deleted
destroy_buffers(s, t, is_recording) ==
  [(IF s.tasks[t].syscallbuf_child = 0 THEN s
    ELSE destroy_desched(destroy_unmap(s, t), t, is_recording))
     EXCEPT !.tasks[t].state = "torn_down"]

\* lines 111 and 1631-1633, in the destructor; the task then is gone
destroy_local_buffers(s, t) ==
  [s EXCEPT !.tasks[t].state = "destroyed",
            !.tracer_maps = IF s.tasks[t].syscallbuf_hdr = 0 THEN @
                            ELSE k_unmap(@, s.tasks[t].syscallbuf_hdr,
                                         s.tasks[t].num_syscallbuf_bytes)]

\* what the kernel did for the syscall that call describes
kernel_syscall(s, t, call) ==
  IF call.failed \/ call.no = "mprotect" THEN s
  ELSE IF call.no = "munmap"
  THEN [s EXCEPT !.kmem[s.tasks[t].vm] = k_unmap(@, call.addr, call.len)]
  ELSE [s EXCEPT !.kmem[s.tasks[t].vm] =
                   k_remap(@, call.addr, call.len, call.new_addr, call.new_len)]

on_syscall_exit_arch(s, t, call) ==
  IF call.failed /\ call.no # "mprotect" THEN s
  ELSE IF call.no = "mprotect"
  THEN [s EXCEPT !.shadow[s.tasks[t].vm] = as_protect(@, call.addr, call.len, call.prot)]
  ELSE IF call.no = "mremap"
  THEN [s EXCEPT !.shadow[s.tasks[t].vm] =
                   as_remap(@, call.addr, call.len, call.new_addr, call.new_len)]
  ELSE [s EXCEPT !.shadow[s.tasks[t].vm] = as_unmap(@, call.addr, call.len)]

\* lines 507, 512: the exec gave the tracee a new address space
post_exec_buffers(s, t) ==
  [s EXCEPT !.tasks[t].syscallbuf_child = 0,
            !.kmem[s.tasks[t].vm] = [p \in Pages |-> NoPage],
            !.shadow[s.tasks[t].vm] = {}]

\* lines 1395-1448: the new task, sharing the AddressSpace or with a copy
clone_new_task(s, share_vm, same_session) ==
  IF share_vm
  THEN [s EXCEPT !.tasks["child"] = NewTask(s.tasks["parent"].vm, same_session)]
  ELSE [s EXCEPT !.tasks["child"] = NewTask(2, same_session),
                 !.kmem[2] = s.kmem[s.tasks["parent"].vm],
                 !.shadow[2] = s.shadow[s.tasks["parent"].vm]]

CloneNoUnshare(s) == s

\* lines 1452-1461
clone_unshare(s) ==
  [s EXCEPT !.kmem[2] = k_map(@, s.tasks["parent"].syscallbuf_child,
                              s.tasks["parent"].num_syscallbuf_bytes, AnonObj),
            !.content[AnonObj] = Hdr(0, 0),
            !.shadow[2] = as_map(@, s.tasks["parent"].syscallbuf_child,
                                 s.tasks["parent"].num_syscallbuf_bytes, "rw",
                                 {"MAP_PRIVATE", "MAP_FIXED", "MAP_ANONYMOUS"}, 0, AnonObj)]

\* line 1472: write_mem into the child, at the parent's syscallbuf_child
clone_lock(s) ==
  [s EXCEPT !.content[s.kmem[2][s.tasks["parent"].syscallbuf_child].obj].locked = 1]

clone(s, share_vm, same_session) ==
  IF ~share_vm /\ same_session /\ s.tasks["parent"].syscallbuf_child # 0
  THEN clone_lock(clone_unshare(clone_new_task(s, share_vm, same_session)))
  ELSE clone_new_task(s, share_vm, same_session)

InitSyscallbuf ==
  /\ tasks = [t \in TaskIds |-> IF t = "parent" THEN NewTask(1, TRUE) ELSE NoTask]
  /\ shadow = [a \in 1 .. 2 |-> {}]
  /\ kmem = [a \in 1 .. 2 |-> [p \in Pages |-> NoPage]]
  /\ tracer_maps = [p \in Pages |-> NoPage]
  /\ content = [o \in 1 .. AnonObj |-> Hdr(0, 0)]
  /\ nonce = 0

(***************************************************************************)
(* Remote memory.  Addresses count bytes.  A page is "unmapped", "rw",     *)
(* "r_shared" (a read-only shared file mapping: ptrace and the mem fd can  *)
(* read but not write it), "none" (PROT_NONE: ptrace reads and writes it,  *)
(* the mem fd reads it and, the kernel having bug 99101, cannot write it)  *)
(* or "w" (PROT_NONE with PROT_WRITE added).  pwrite64 fails with EIO,     *)
(* never with EPERM: the kernel is not a PaX kernel.                       *)
(***************************************************************************)
WordSize == 2

PageBytes == 2

MemPages == 3

MaxLen == 3

Addrs == 0 .. MemPages * PageBytes - 1

PageOf(a) == a \div PageBytes

IsMapped(k, a) == a \in Addrs /\ k[PageOf(a)] # "unmapped"

CanPeek(k, a) == IsMapped(k, a)

CanPoke(k, a) == IsMapped(k, a) /\ k[PageOf(a)] # "r_shared"

CanPread(k, a) == IsMapped(k, a)

CanPwrite(k, a) == IsMapped(k, a) /\ k[PageOf(a)] \in {"rw", "w"}

\* the bytes buf (a sequence) stored at a, a + 1, ...
Store(m, a, buf) ==
  [x \in Addrs |-> IF a <= x /\ x < a + Len(buf) THEN buf[x - a + 1] ELSE m[x]]

Load(m, a, n) == [i \in 1 .. n |-> m[a + i - 1]]

\* the number of bytes from a on, at most n, that satisfy can
RECURSIVE Run(_, _, _, _)
Run(can, a, n, done) ==
  IF done < n /\ (a + done) \in can THEN Run(can, a, n, done + 1) ELSE done

\* lines 1745-1759: one aligned word per round
RECURSIVE read_bytes_ptrace(_, _, _, _, _)
read_bytes_ptrace(m, k, addr, buf_size, nread) ==
  IF nread >= buf_size THEN nread
  ELSE IF ~CanPeek(k, (addr + nread) - ((addr + nread) % WordSize)) THEN nread
  ELSE read_bytes_ptrace(m, k, addr, buf_size,
         nread + Min(WordSize - ((addr + nread) % WordSize), buf_size - nread))

\* lines 1772-1789, one round: a word written in part is read first and a
\* failed read ends the loop; the result of the PTRACE_POKEDATA is not looked
\* at and the bytes count as written
write_bytes_ptrace_word(f) ==
  IF f.nwritten >= f.n \/ f.errno # 0 THEN f
  ELSE IF /\ Min(WordSize - ((f.addr + f.nwritten) % WordSize), f.n - f.nwritten) < WordSize
          /\ ~CanPeek(f.kprot, f.addr + f.nwritten)
  THEN [f EXCEPT !.errno = 5]
  ELSE [f EXCEPT !.mem = IF CanPoke(f.kprot, f.addr + f.nwritten)
                         THEN Store(@, f.addr + f.nwritten,
                                SubSeq(f.buf, f.nwritten + 1,
                                       f.nwritten + Min(WordSize - ((f.addr + f.nwritten) % WordSize),
                                                        f.n - f.nwritten)))
                         ELSE @,
                 !.moved = IF CanPoke(f.kprot, f.addr + f.nwritten)
                           THEN @ + Min(WordSize - ((f.addr + f.nwritten) % WordSize),
                                        f.n - f.nwritten)
                           ELSE @,
                 !.nwritten = @ + Min(WordSize - ((f.addr + f.nwritten) % WordSize),
                                      f.n - f.nwritten)]

RECURSIVE write_bytes_ptrace(_, _)
write_bytes_ptrace(f, rounds) ==
  IF rounds = 0 THEN [f EXCEPT !.errno = 0]
  ELSE write_bytes_ptrace(write_bytes_ptrace_word(f), rounds - 1)

\* pread64 and pwrite64 on the mem fd: the bytes up to the first one the
\* kernel refuses, -1 if that is the first; 0 on a stale fd
pread64(k, fd, addr, n) ==
  IF fd = "stale" THEN 0
  ELSE IF Run({a \in Addrs : CanPread(k, a)}, addr, n, 0) = 0 THEN -1
  ELSE Run({a \in Addrs : CanPread(k, a)}, addr, n, 0)

pwrite64(f) ==
  IF f.mem_fd = "stale" THEN [f EXCEPT !.nwritten = 0, !.errno = 0]
  ELSE IF Run({a \in Addrs : CanPwrite(f.kprot, a)}, f.addr, f.n, 0) = 0
  THEN [f EXCEPT !.nwritten = -1, !.errno = 5]
  ELSE [f EXCEPT !.nwritten = Run({a \in Addrs : CanPwrite(f.kprot, a)}, f.addr, f.n, 0),
                 !.errno = 0,
                 !.moved = Run({a \in Addrs : CanPwrite(f.kprot, a)}, f.addr, f.n, 0),
                 !.mem = Store(@, f.addr,
                               SubSeq(f.buf, 1, Run({a \in Addrs : CanPwrite(f.kprot, a)},
                                                    f.addr, f.n, 0)))]

\* lines 1795-1835
read_bytes_fallible(m, k, fd, addr, buf_size) ==
  IF buf_size = 0 THEN 0
  ELSE IF fd = "closed" THEN read_bytes_ptrace(m, k, addr, buf_size, 0)
  ELSE pread64(k, "open", addr, buf_size)

\* lines 1915-1922: the mappings from the page of addr up to the page of the
\* last byte whose recorded protection has neither PROT_READ nor PROT_WRITE
mappings_to_fix(f) ==
  {p \in PageOf(f.addr) .. PageOf(f.addr + f.n - 1) :
     p < MemPages /\ f.as_prot[p] = "none"}

\* lines 1930-1933
spw_fix(f) ==
  [f EXCEPT !.fixed = mappings_to_fix(f),
            !.fatal = \E p \in mappings_to_fix(f) : f.kprot[p] = "unmapped",
            !.kprot = [p \in DOMAIN f.kprot |-> IF p \in mappings_to_fix(f) THEN "w" ELSE f.kprot[p]]]

SpwNoRestore(f) == f

\* lines 1935-1938
spw_restore(f) ==
  [f EXCEPT !.kprot = [p \in DOMAIN f.kprot |-> IF p \in f.fixed THEN f.as_prot[p] ELSE f.kprot[p]]]

safe_pwrite64(f) == spw_restore(pwrite64(spw_fix(f)))

\* lines 1972-1980
wbh_report(f) ==
  IF f.has_ok THEN [f EXCEPT !.ok = f.nwritten >= f.n]
  ELSE [f EXCEPT !.fatal = @ \/ f.nwritten # f.n]

\* lines 1950-1959: without a mem fd
wbh_ptrace(f) ==
  IF f.has_ok THEN [f EXCEPT !.ok = f.nwritten >= f.n] ELSE f

\* lines 1961-1966: a write of 0 bytes without an error reopens the mem fd
\* and starts over
wbh_reopen(f) ==
  IF f.nwritten = 0 /\ f.errno = 0
  THEN safe_pwrite64([f EXCEPT !.mem_fd = "open"])
  ELSE f

write_bytes_helper(f) ==
  IF f.n = 0 THEN f
  ELSE IF f.mem_fd = "closed" THEN wbh_ptrace(write_bytes_ptrace(f, f.n))
  ELSE wbh_report(wbh_reopen(safe_pwrite64(f)))

\* the locals of one transfer, with the state it works on
MemFrame(addr, n, buf, has_ok) ==
  [mem |-> mem, kprot |-> kprot, as_prot |-> as_prot, mem_fd |-> mem_fd, addr |-> addr, n |-> n,
   buf |-> buf, has_ok |-> has_ok, ok |-> TRUE, nwritten |-> 0, moved |-> 0, errno |-> 0,
   fatal |-> FALSE, fixed |-> {}]

\* lines 1837-1850
read_bytes_helper(f) ==
  [f EXCEPT !.nwritten = read_bytes_fallible(f.mem, f.kprot, f.mem_fd, f.addr, f.n),
            !.moved = Max(0, read_bytes_fallible(f.mem, f.kprot, f.mem_fd, f.addr, f.n)),
            !.mem_fd = IF @ = "stale" /\ f.n > 0 THEN "open" ELSE @,
            !.ok = ~f.has_ok \/ read_bytes_fallible(f.mem, f.kprot, f.mem_fd, f.addr, f.n) = f.n,
            !.fatal = ~f.has_ok /\ read_bytes_fallible(f.mem, f.kprot, f.mem_fd, f.addr, f.n) # f.n]

NoIo ==
  [op |-> "none", addr |-> 0, n |-> 0, buf |-> <<>>, has_ok |-> FALSE, ok |-> TRUE, ret |-> 0,
   moved |-> 0, fatal |-> FALSE, fixed |-> {}, fd |-> "open", got |-> <<>>]

Kinds == <<"rw", "none", "r_shared", "unmapped">>

\* the pages' protections: the four kinds in turn, from the k-th on
Layout(k) == [p \in 0 .. MemPages - 1 |-> Kinds[((p + k) % 4) + 1]]

InitMem ==
  /\ mem = [a \in Addrs |-> 0]
  /\ kprot = Layout(0)
  /\ as_prot = kprot
  /\ mem_fd = "open"
  /\ io = NoIo

(***************************************************************************)
(* Membership in the aggregates.  agg holds the live tasks, each task's    *)
(* references as, fds and tg (0: none) and each aggregate's task set.  An  *)
(* aggregate is named by a number; one no task refers to is freed, and     *)
(* between operations the aggregates are numbered in the order of the      *)
(* tasks that refer to them.  A new aggregate's task set holds the task handed to *)
(* create_vm, create_tg, FdTable::create and FdTable::clone, and is empty  *)
(* after Session::clone.                                                   *)
(***************************************************************************)
MaxTasks == 3

TaskNums == 1 .. MaxTasks

AggIds == 1 .. MaxTasks + 1

NoAgg ==
  [live |-> {}, as |-> [t \in TaskNums |-> 0], fds |-> [t \in TaskNums |-> 0],
   tg |-> [t \in TaskNums |-> 0], as_tasks |-> [a \in AggIds |-> {}],
   fds_tasks |-> [a \in AggIds |-> {}], tg_tasks |-> [a \in AggIds |-> {}]]

\* the first number no task's reference holds
Fresh(refs) ==
  CHOOSE a \in AggIds :
    /\ \A t \in TaskNums : refs[t] # a
    /\ \A b \in AggIds : b < a => \E t \in TaskNums : refs[t] = b

insert_task(sets, a, t) == [sets EXCEPT ![a] = @ \cup {t}]

erase_task(sets, a, t) == [sets EXCEPT ![a] = @ \ {t}]

\* session.create_vm(t, ...)
create_vm(w, t) ==
  [w EXCEPT !.as_tasks[Fresh(w.as)] = {t}, !.as[t] = Fresh(w.as)]

\* session.create_tg(t)
create_tg(w, t) ==
  [w EXCEPT !.tg_tasks[Fresh(w.tg)] = {t}, !.tg[t] = Fresh(w.tg)]

\* FdTable::create(t) and fds->clone(t)
fds_clone(w, t) ==
  [w EXCEPT !.fds_tasks[Fresh(w.fds)] = {t}, !.fds[t] = Fresh(w.fds)]

\* Task::spawn, lines 2234-2240
spawn(w, t) == fds_clone(create_vm(create_tg([w EXCEPT !.live = @ \cup {t}], t), t), t)

\* Task::clone, lines 1394-1399
clone_tg(w, p, t, share_tg) ==
  IF share_tg
  THEN [w EXCEPT !.tg[t] = w.tg[p], !.tg_tasks = insert_task(@, w.tg[p], t)]
  ELSE [w EXCEPT !.tg[t] = Fresh(w.tg), !.tg_tasks[Fresh(w.tg)] = {t}]

\* lines 1400-1416
clone_as(w, p, t, share_vm) ==
  IF share_vm THEN [w EXCEPT !.as[t] = w.as[p]]
  ELSE [w EXCEPT !.as[t] = Fresh(w.as), !.as_tasks[Fresh(w.as)] = {}]

\* lines 1425-1430
clone_fds(w, p, t, share_files) ==
  IF share_files
  THEN [w EXCEPT !.fds[t] = w.fds[p], !.fds_tasks = insert_task(@, w.fds[p], t)]
  ELSE fds_clone(w, t)

CloneNoAsInsert(w, t) == w

\* line 1447
clone_as_insert(w, t) == [w EXCEPT !.as_tasks = insert_task(@, w.as[t], t)]

\* Task::clone, the new task t of parent p
clone_task(w, p, t, share_tg, share_vm, share_files) ==
  clone_as_insert(
    clone_fds(clone_as(clone_tg([w EXCEPT !.live = @ \cup {t}], p, t, share_tg),
                       p, t, share_vm),
              p, t, share_files),
    t)

\* Task::post_exec, lines 491-492
post_exec_erase(w, t) ==
  [w EXCEPT !.as_tasks = erase_task(@, w.as[t], t), !.fds_tasks = erase_task(@, w.fds[t], t)]

\* Task::post_exec, lines 491-492 and 512-514
post_exec_rebind(w, t) == fds_clone(create_vm(post_exec_erase(w, t), t), t)

\* on_syscall_exit_arch, lines 304-306 and 394-399
unshare(w, t, failed, clone_files) ==
  IF failed \/ ~clone_files THEN w
  ELSE fds_clone([w EXCEPT !.fds_tasks = erase_task(@, w.fds[t], t)], t)

\* Task::~Task, lines 113-116, and the references of the deleted task
task_erase(w, t) ==
  [w EXCEPT !.tg_tasks = erase_task(@, w.tg[t], t),
            !.as_tasks = erase_task(@, w.as[t], t),
            !.fds_tasks = erase_task(@, w.fds[t], t),
            !.live = @ \ {t},
            !.tg[t] = 0, !.as[t] = 0, !.fds[t] = 0]

\* the aggregates named anew, in the order of the first task that refers to
\* each; the task set of a freed aggregate is gone
Referenced(refs) == {a \in AggIds : \E t \in TaskNums : refs[t] = a}

FirstTask(refs, a) == CHOOSE t \in TaskNums : refs[t] = a /\ \A u \in TaskNums : refs[u] = a => t <= u

Rank(refs, a) ==
  1 + Cardinality({b \in Referenced(refs) : FirstTask(refs, b) < FirstTask(refs, a)})

RenamedRefs(refs) == [t \in TaskNums |-> IF refs[t] = 0 THEN 0 ELSE Rank(refs, refs[t])]

RenamedSets(refs, sets) ==
  [n \in AggIds |-> IF \E a \in Referenced(refs) : Rank(refs, a) = n
                    THEN sets[CHOOSE a \in Referenced(refs) : Rank(refs, a) = n]
                    ELSE {}]

Renamed(w) ==
  [w EXCEPT !.as = RenamedRefs(w.as), !.as_tasks = RenamedSets(w.as, w.as_tasks),
            !.fds = RenamedRefs(w.fds), !.fds_tasks = RenamedSets(w.fds, w.fds_tasks),
            !.tg = RenamedRefs(w.tg), !.tg_tasks = RenamedSets(w.tg, w.tg_tasks)]

InitAgg == agg = NoAgg

(***************************************************************************)
(* prname.  A string is the sequence of its characters; a buffer in the    *)
(* tracee holds NUL for a NUL byte.                                        *)
(***************************************************************************)
PrnameBufSize == 16

NUL == ""

MaxNameLen == 17

Rep(c, n) == [i \in 1 .. n |-> c]

\* the C string at the start of buf: the characters before the first NUL
CStr(buf) ==
  SubSeq(buf, 1, Cardinality({i \in 1 .. Len(buf) : \A j \in 1 .. i : buf[j] # NUL}))

\* s.rfind('/'), 0 standing for npos
rfind_slash(s) ==
  IF \E i \in 1 .. Len(s) : s[i] = "/"
  THEN CHOOSE i \in 1 .. Len(s) : s[i] = "/" /\ \A j \in i + 1 .. Len(s) : s[j] # "/"
  ELSE 0

\* lines 479-482
prname_from_exe_image(e) == SubSeq(e, rfind_slash(e) + 1, Len(e))

\* Task::update_prname, lines 895-902, on the 16 bytes read from the tracee
update_prname(buf) == CStr([buf EXCEPT ![PrnameBufSize] = NUL])

\* strncpy(prname, state.prname.c_str(), sizeof(prname)), line 1585
strncpy16(s) ==
  [i \in 1 .. PrnameBufSize |-> IF i <= Len(s) THEN s[i] ELSE NUL]

\* Task::copy_state, lines 1584-1591: the name goes through the tracee
copy_state_prname(state_prname) == update_prname(strncpy16(state_prname))

\* line 68
InitialPrname == <<"?", "?", "?">>

\* what prctl(PR_SET_NAME) may point at: a name, NUL-padded or filling the buffer
NameBufs == {[i \in 1 .. PrnameBufSize |-> IF i <= n THEN "n" ELSE NUL] : n \in 0 .. PrnameBufSize}

\* the exe images: a basename alone, or after a directory
ExeImages ==
  {Rep("x", n) : n \in 1 .. MaxNameLen}
    \cup {<<"/", "d", "/">> \o Rep("x", n) : n \in 1 .. MaxNameLen}

InitPrname ==
  /\ prname = [t \in {"task", "clone"} |-> InitialPrname]
  /\ captured_prname = InitialPrname

(***************************************************************************)
(* The hook at a syscall exit, on_syscall_exit, for the task that is       *)
(* "parent" among the tasks with buffers, 1 among the tasks of the         *)
(* aggregates and "task" among the named ones.                             *)
(***************************************************************************)
MaxFd == 2

Fds == 1 .. MaxFd

UserDescs == {[entry_number |-> 6, base_addr |-> 0]}

\* a set_thread_area that appends whatever the sequence holds
SetThreadAreaAppends(ta, desc) == Append(ta, desc)

\* lines 868-878: the first descriptor of the entry is replaced, or desc appended
set_thread_area(ta, desc) ==
  IF \E i \in 1 .. Len(ta) : ta[i].entry_number = desc.entry_number
  THEN [i \in 1 .. Len(ta) |->
          IF /\ ta[i].entry_number = desc.entry_number
             /\ \A j \in 1 .. i - 1 : ta[j].entry_number # desc.entry_number
          THEN desc ELSE ta[i]]
  ELSE Append(ta, desc)

\* FdTable::did_dup: the new fd has the monitor of the old one, or none
did_dup(fds, from, to) == IF from \in fds THEN fds \cup {to} ELSE fds \ {to}

\* FdTable::did_close
did_close(fds, fd) == fds \ {fd}

VmSyscalls == {"munmap", "mprotect", "mremap"}

HookSyscalls ==
  VmSyscalls \cup {"set_thread_area", "prctl", "dup", "fcntl", "close", "unshare"}

NoVmCall == [no |-> "none", failed |-> FALSE, addr |-> 1, len |-> 1, new_addr |-> 0,
             new_len |-> 0, prot |-> ""]

NotCalled == [mprotect |-> FALSE, failed |-> FALSE, kept |-> TRUE, protected |-> FALSE]

\* an on_syscall_exit that does not return early for a failed syscall
OnSyscallExitNoEarlyReturn(h, no, failed, a) ==
  IF no \in VmSyscalls
  THEN [h EXCEPT !.sb = on_syscall_exit_arch(@, "parent", a.vm)]
  ELSE IF no = "set_thread_area"
  THEN [h EXCEPT !.thread_areas = set_thread_area(@, a.desc)]
  ELSE IF no = "prctl"
  THEN (IF a.option = "PR_SET_NAME"
        THEN [h EXCEPT !.prname["task"] = update_prname(a.buf)] ELSE h)
  ELSE IF no = "dup"
  THEN [h EXCEPT !.fd_monitored = did_dup(@, a.from, a.to)]
  ELSE IF no = "fcntl"
  THEN (IF a.option = "F_DUPFD"
        THEN [h EXCEPT !.fd_monitored = did_dup(@, a.from, a.to)] ELSE h)
  ELSE IF no = "close"
  THEN [h EXCEPT !.fd_monitored = did_close(@, a.from)]
  ELSE [h EXCEPT !.agg = unshare(@, 1, FALSE, a.clone_files)]

\* lines 304-420: the syscalls of the switch that change the shadow, the
\* thread areas, the name, the FdTable or the task's reference to it.  The
\* copy that unshare gives the task holds the monitors of the old table.
on_syscall_exit(h, no, failed, a) ==
  IF failed /\ no # "mprotect" THEN h
  ELSE IF no \in VmSyscalls
  THEN [h EXCEPT !.sb = on_syscall_exit_arch(@, "parent", a.vm)]
  ELSE IF no = "set_thread_area"
  THEN [h EXCEPT !.thread_areas = set_thread_area(@, a.desc)]
  ELSE IF no = "prctl"
  THEN (IF a.option = "PR_SET_NAME"
        THEN [h EXCEPT !.prname["task"] = update_prname(a.buf)] ELSE h)
  ELSE IF no = "dup"
  THEN [h EXCEPT !.fd_monitored = did_dup(@, a.from, a.to)]
  ELSE IF no = "fcntl"
  THEN (IF a.option = "F_DUPFD"
        THEN [h EXCEPT !.fd_monitored = did_dup(@, a.from, a.to)] ELSE h)
  ELSE IF no = "close"
  THEN [h EXCEPT !.fd_monitored = did_close(@, a.from)]
  ELSE [h EXCEPT !.agg = unshare(@, 1, failed, a.clone_files)]

InitHook ==
  /\ thread_areas = <<>>
  /\ fd_monitored = {1}
  /\ last_call = NotCalled

(***************************************************************************)
(* What the kernel reports to a wait taken step by step.                   *)
(***************************************************************************)
NoReport == [kind |-> "none", status |-> 0]

\* the most a history counter of the wait loop counts to
MaxLoopCount == 2

NoLoop == [interrupts |-> 0, arms |-> 0]

\* lines 975-979: the itimer is set before waitpid if there is a deadline
arm_timer(h, dl) == IF dl THEN [h EXCEPT !.arms = Min(@ + 1, MaxLoopCount)] ELSE h

\* lines 991-1008: the process is taken for a zombie if it is one or if its
\* status file cannot be read
is_zombie_process(s) == s.tracee \in {"dead", "reaped"}

\* an interrupted waitpid that sends PTRACE_INTERRUPT every time
AfterEintrSendsAlways(zombie, sent_wait_interrupt) ==
  [break |-> zombie, send |-> ~zombie]

\* an interrupted waitpid that interrupts before it looks for a zombie
AfterEintrSendsFirst(zombie, sent_wait_interrupt) ==
  [break |-> zombie, send |-> ~sent_wait_interrupt]

\* lines 991-1008: what wait does when waitpid failed with EINTR
after_eintr(zombie, sent_wait_interrupt) ==
  IF zombie THEN [break |-> TRUE, send |-> FALSE]
  ELSE [break |-> FALSE, send |-> ~sent_wait_interrupt]

NoRaw == [valid |-> FALSE, sent |-> FALSE, kind |-> "none", status |-> 0]

StopRegs == Reg(2, 1, NORMAL_FLAGS, NORMAL_FLAGS, -1)

\* the stops a tracee makes on its own; a group-stop of a seized tracee is
\* reported as PTRACE_EVENT_STOP with the stopping signal
OwnStops ==
  {k \in KStops : k.kind \in {"syscall_entry", "signal", "exit"}}
    \cup {[kind |-> "group_stop", status |-> StatusOf(PTRACE_EVENT_STOP, sig)] :
            sig \in {SIGSTOP, SIGTSTP}}

\* the stop PTRACE_INTERRUPT brings about
InterruptStopsOf == {[kind |-> "interrupt", status |-> StatusOf(PTRACE_EVENT_STOP, sig)] :
                       sig \in {SIGTRAP, SIGSTOP, 0}}

InitWaitLoop ==
  /\ wpc = "idle"
  /\ interrupt_after_elapsed = FALSE
  /\ sent_interrupt = FALSE
  /\ kreport = NoReport
  /\ interrupted = FALSE
  /\ wraw = NoRaw
  /\ wloop = NoLoop

InitLife ==
  /\ unstable = FALSE
  /\ destroyed = FALSE
  /\ destroy_called = FALSE

\* the most reopenings of the mem fd that are followed
MaxReopens == 3

NoXfer == [op |-> "none", pc |-> "idle", buf_size |-> 0, done |-> 0, reopens |-> 0, calls |-> 0,
           ret |-> 0, has_ok |-> FALSE, ok |-> TRUE, fatal |-> FALSE]

\* lines 1806-1835: one turn of the loop of read_bytes_fallible, after pread64
\* returned nread with errno
rbf_turn(x, nread, errno) ==
  IF nread = 0 /\ x.done = 0 /\ errno = 0
  THEN [x EXCEPT !.reopens = @ + 1, !.calls = @ + 1]
  ELSE IF nread <= 0
  THEN [x EXCEPT !.pc = "idle", !.calls = @ + 1, !.ret = IF x.done > 0 THEN x.done ELSE nread]
  ELSE IF x.done + nread < x.buf_size
  THEN [x EXCEPT !.done = @ + nread, !.calls = @ + 1]
  ELSE [x EXCEPT !.pc = "idle", !.done = @ + nread, !.calls = @ + 1, !.ret = x.done + nread]

\* lines 1961-1983: one call of write_bytes_helper with a mem fd, after
\* safe_pwrite64 returned nwritten with errno; the kernel is not a PaX kernel
wbh_turn(x, nwritten, errno) ==
  IF nwritten = 0 /\ errno = 0
  THEN [x EXCEPT !.reopens = @ + 1, !.calls = @ + 1]
  ELSE [x EXCEPT !.pc = "idle", !.calls = @ + 1, !.ret = nwritten,
                 !.done = IF nwritten > 0 THEN nwritten ELSE 0,
                 !.ok = IF x.has_ok THEN nwritten >= x.buf_size ELSE @,
                 !.fatal = ~x.has_ok /\ nwritten # x.buf_size]

\* the descriptors a tracee hands to set_thread_area and to clone
TlsDescs == [entry_number : {6, 7}, base_addr : {0, 1}]

TlsTasks == {"task", "clone"}

\* a clone that takes the descriptor on every architecture
SetThreadAreaFromCloneAnyArch(ta, a, desc) == set_thread_area(ta, desc)

\* lines 1377-1386: the tls argument of clone points to a user_desc on x86
\* only
set_thread_area_from_clone(ta, a, desc) ==
  IF a = "x86" THEN set_thread_area(ta, desc) ELSE ta

\* Task::clone, lines 1442-1445
clone_thread_areas(ta, a, set_tls, desc) ==
  IF set_tls THEN set_thread_area_from_clone(ta, a, desc) ELSE ta

\* history: the descriptor last written for each entry number, and the entry
\* numbers in the order they were first written
NoDesc == [entry_number |-> 0, base_addr |-> 0]

NoWrites == [last |-> [e \in {6, 7} |-> NoDesc], order |-> <<>>]

Written(h, desc) ==
  [last |-> [h.last EXCEPT ![desc.entry_number] = desc],
   order |-> IF \E i \in 1 .. Len(h.order) : h.order[i] = desc.entry_number
             THEN h.order ELSE Append(h.order, desc.entry_number)]

RECURSIVE WrittenAll(_, _)
WrittenAll(h, descs) ==
  IF descs = <<>> THEN h ELSE WrittenAll(Written(h, Head(descs)), Tail(descs))

NoTls ==
  [arch |-> "x86", areas |-> [t \in TlsTasks |-> <<>>], captured |-> <<>>,
   writes |-> [t \in TlsTasks |-> NoWrites], op |-> "none", who |-> "task", replaced |-> FALSE]

NoClone ==
  [op |-> "none", p |-> 0, t |-> 0, share_tg |-> FALSE, share_vm |-> FALSE,
   share_files |-> FALSE, set_tls |-> FALSE, desc |-> NoDesc]

NoKin ==
  [arch |-> "x86", prname |-> [t \in TaskNums |-> <<>>], areas |-> [t \in TaskNums |-> <<>>],
   last |-> NoClone]

\* Task::clone, lines 1435 and 1442-1445: the name and the thread areas of
\* the new task t of parent p
clone_kin(k, p, t, set_tls, desc) ==
  [k EXCEPT !.prname[t] = k.prname[p],
            !.areas[t] = clone_thread_areas(k.areas[p], k.arch, set_tls, desc)]

NoReap ==
  [recording |-> FALSE, op |-> "none", t |-> 0, unstable |-> FALSE, last_member |-> FALSE,
   waited |-> FALSE]

\* Task::~Task, lines 94-100: whether waitpid(tg->real_tgid, NULL, __WALL)
\* is called; the task is erased from the task set of tg at line 114
dtor_reaps(w, t, is_unstable, is_recording) ==
  ~is_unstable /\ w.tg_tasks[w.tg[t]] = {} /\ ~is_recording

SI_KERNEL == 128

TRAP_BRKPT == 1

decrement_by_bkpt_insn_length(addr) == addr - 1

NoReasons ==
  [fatal |-> FALSE, singlestep |-> FALSE, watchpoint |-> FALSE, breakpoint |-> FALSE,
   notified |-> FALSE, siginfo_read |-> FALSE]

FatalReasons == [NoReasons EXCEPT !.fatal = TRUE]

\* the breakpoint decision without its assertions
CtrBreakpointNoAsserts(i, r) ==
  IF r.singlestep THEN [r EXCEPT !.breakpoint = i.last_resume \in i.breakpoints]
  ELSE IF r.watchpoint
  THEN [r EXCEPT !.breakpoint =
                   /\ decrement_by_bkpt_insn_length(i.ip) \in i.exec_fired
                   /\ decrement_by_bkpt_insn_length(i.ip) \in i.breakpoints]
  ELSE [r EXCEPT !.siginfo_read = TRUE,
                 !.breakpoint = i.si_code \in {SI_KERNEL, TRAP_BRKPT}]

\* compute_trap_reasons, lines 646-673
ctr_breakpoint(i, r) ==
  IF r.singlestep
  THEN IF /\ i.last_resume \in i.breakpoints
          /\ i.last_resume # decrement_by_bkpt_insn_length(i.ip)
       THEN FatalReasons
       ELSE [r EXCEPT !.breakpoint = i.last_resume \in i.breakpoints]
  ELSE IF r.watchpoint
  THEN [r EXCEPT !.breakpoint =
                   /\ decrement_by_bkpt_insn_length(i.ip) \in i.exec_fired
                   /\ decrement_by_bkpt_insn_length(i.ip) \in i.breakpoints]
  ELSE IF i.si_signo # SIGTRAP THEN FatalReasons
  ELSE IF /\ i.si_code \in {SI_KERNEL, TRAP_BRKPT}
          /\ decrement_by_bkpt_insn_length(i.ip) \notin i.breakpoints
  THEN FatalReasons
  ELSE [r EXCEPT !.siginfo_read = TRUE,
                 !.breakpoint = i.si_code \in {SI_KERNEL, TRAP_BRKPT}]

\* Task::compute_trap_reasons, lines 627-675.  i.singlestep_bit and
\* i.watchpoint_bits are DS_SINGLESTEP and DS_WATCHPOINT_ANY of the debug
\* status, i.changes what has_any_watchpoint_changes answers
compute_trap_reasons(i) ==
  IF i.pending_sig # SIGTRAP THEN FatalReasons
  ELSE ctr_breakpoint(i, [NoReasons EXCEPT !.singlestep = i.singlestep_bit,
                                           !.notified = i.watchpoint_bits \/ i.singlestep_bit,
                                           !.watchpoint = i.changes \/ i.watchpoint_bits])

NoTrapStop ==
  [pending_sig |-> 0, singlestep_bit |-> FALSE, watchpoint_bits |-> FALSE, changes |-> FALSE,
   ip |-> 1, last_resume |-> 1, breakpoints |-> {}, exec_fired |-> {}, si_signo |-> 0,
   si_code |-> 0]

NoTrap == [in |-> NoTrapStop, done |-> FALSE, out |-> NoReasons]

\* the state right after fork: the tracer is about to PTRACE_SEIZE, the child
\* about to set up its process.  report is the stop waitpid has not returned
\* yet (0: none), log what the tracer saw and did
NoSpawn ==
  [tpc |-> "seize", cpc |-> "setup", child |-> "running", attached |-> FALSE, report |-> 0,
   is_stopped |-> FALSE, wait_status |-> -1, mem_fd |-> "closed", filter |-> FALSE,
   resumed_by_tracer |-> FALSE, log |-> <<>>, signals |-> 0]

\* spawn, lines 2208-2225: PTRACE_SEIZE, and SIGKILL and FATAL if it fails.
\* A child that is in the group stop of its SIGSTOP reports it when seized
seize(x, ok) ==
  IF ok
  THEN [x EXCEPT !.attached = TRUE, !.tpc = "wait",
                 !.report = IF x.child = "stopped" THEN SIGSTOP ELSE 0]
  ELSE [x EXCEPT !.child = "dead", !.tpc = "fatal"]

\* open_mem_fd, lines 1639-1662: the remote syscalls leave the task as it was
\* found, the fd is open on return (line 1659)
open_mem_fd(x) == [x EXCEPT !.mem_fd = "open"]

\* lines 2254-2255: resume_execution(RESUME_CONT, RESUME_NONBLOCKING,
\* RESUME_UNLIMITED_TICKS), sig being 0
spawn_resume(x) ==
  [x EXCEPT !.is_stopped = FALSE, !.child = "running", !.resumed_by_tracer = TRUE,
            !.log = Append(@, [ev |-> "cont", sig |-> 0, blocking |-> FALSE])]

\* lines 2258-2260
spawn_finish(x) == [open_mem_fd([x EXCEPT !.wait_status = 0]) EXCEPT !.tpc = "returned"]

\* a loop that ends at the first stop, whatever its signal
SpawnTurnAnyStop(x, sig) ==
  spawn_finish([x EXCEPT !.is_stopped = TRUE, !.wait_status = StatusOf(0, sig), !.report = 0,
                         !.log = Append(@, [ev |-> "stop", sig |-> sig, blocking |-> TRUE])])

\* lines 2250-2257: one turn of the loop, wait() returning a stop by sig
spawn_turn(x, sig) ==
  IF sig = SIGSTOP
  THEN spawn_finish([x EXCEPT !.is_stopped = TRUE, !.wait_status = StatusOf(0, sig),
                              !.report = 0,
                              !.log = Append(@, [ev |-> "stop", sig |-> sig, blocking |-> TRUE])])
  ELSE spawn_resume([x EXCEPT !.is_stopped = TRUE, !.wait_status = StatusOf(0, sig),
                              !.report = 0,
                              !.log = Append(@, [ev |-> "stop", sig |-> sig, blocking |-> TRUE])])

\* a child that does not stop itself
ChildRaiseNoStop(x) == [x EXCEPT !.cpc = "filter"]

\* line 2140: ::kill(getpid(), SIGSTOP).  The child stops; its tracer, if it
\* has one, is told
child_raise(x) ==
  [x EXCEPT !.cpc = "filter", !.child = "stopped",
            !.report = IF x.attached THEN SIGSTOP ELSE 0]

\* line 2143: set_up_seccomp_filter
child_filter(x) == [x EXCEPT !.cpc = "work", !.filter = TRUE]

\* on_syscall_exit_arch, lines 401-410: the ranges of a write
write_ranges(arg2, amount) ==
  IF amount > 0 THEN <<[addr |-> arg2, len |-> amount]>> ELSE <<>>

\* a loop that does not count down what is written
RECURSIVE WritevRangesNoCountdown(_, _, _)
WritevRangesNoCountdown(iovecs, written, ranges) ==
  IF iovecs = <<>> THEN ranges
  ELSE IF Min(written, Head(iovecs).iov_len) > 0
  THEN WritevRangesNoCountdown(Tail(iovecs), written,
                               Append(ranges, [addr |-> Head(iovecs).iov_base,
                                              len |-> Min(written, Head(iovecs).iov_len)]))
  ELSE WritevRangesNoCountdown(Tail(iovecs), written, ranges)

\* lines 419-425: the loop over the iovecs
RECURSIVE writev_ranges(_, _, _)
writev_ranges(iovecs, written, ranges) ==
  IF iovecs = <<>> THEN ranges
  ELSE IF Min(written, Head(iovecs).iov_len) > 0
  THEN writev_ranges(Tail(iovecs), written - Min(written, Head(iovecs).iov_len),
                     Append(ranges, [addr |-> Head(iovecs).iov_base,
                                    len |-> Min(written, Head(iovecs).iov_len)]))
  ELSE writev_ranges(Tail(iovecs), written, ranges)

NoWrite == [call |-> "none", arg2 |-> 0, iovecs |-> <<>>, result |-> 0, ranges |-> <<>>]

InitLate ==
  /\ xfer = NoXfer /\ tls = NoTls /\ kin = NoKin /\ reap = NoReap /\ trap = NoTrap
  /\ sp = NoSpawn /\ wr = NoWrite

InitRest == InitMem /\ InitWaitLoop /\ InitLife /\ InitAgg /\ InitPrname /\ InitHook /\ InitLate

(***************************************************************************)
(* The stop machine.                                                       *)
(***************************************************************************)
InitStop ==
  /\ recording \in BOOLEAN
  /\ arch \in Archs
  /\ is_stopped = FALSE
  /\ wait_status = 0
  /\ registers = ZeroRegs
  /\ pending_siginfo = NoSiginfo
  /\ seen_ptrace_exit_event = FALSE
  /\ detected_unexpected_exit = FALSE
  /\ extra_registers_known = FALSE
  /\ ticks = 0
  /\ address_of_last_execution_resume = 0
  /\ hpc_started = TRUE
  /\ breakpoints \in SUBSET BreakpointAddrs
  /\ ev = "syscall"
  /\ fatal = FALSE
  /\ tracee = "running"
  /\ kstop = "none"
  /\ tregs = ZeroRegs
  /\ r11_read = 0
  /\ committed = FALSE
  /\ after_exec = FALSE
  /\ orig_at_resume = 0
  /\ ticks_read = 0
  /\ did_waitpid_calls = 0
  /\ regs_result = NoRegsResult
  /\ observed = NotObserved

\* the kernel's reports that can end one wait of s: in.kinds are the stops
\* the tracee makes, in.regs the registers it then has, in.deltas the ticks
\* the counter then reads, in.dies the ptrace requests before which the
\* tracee can be killed
WaitOutcomes(s, in) ==
  IF s.fatal THEN {<<CHOOSE k \in KStops : k.kind = "exit", s.tregs, 0, FALSE>>}
  ELSE IF s.detected_unexpected_exit
  THEN {<<k, s.tregs, d, FALSE>> : k \in {x \in KStops : x.kind = "exit"}, d \in in.deltas}
  ELSE IF s.tracee \in {"dead", "reaped"}
  THEN {<<k, s.tregs, 0, z>> : k \in {x \in KStops : x.kind = "killed"},
                                z \in IF s.tracee = "dead" THEN BOOLEAN ELSE {FALSE}}
  ELSE {<<k, r, d, FALSE>> : k \in {x \in KStops : x.kind \in in.kinds \ {"killed"}},
                             r \in in.regs, d \in in.deltas}
       \cup {<<k, s.tregs, 0, FALSE>> : k \in {x \in KStops : x.kind = "killed"}}

DoWait(s, in) ==
  \E o \in WaitOutcomes(s, in), die \in in.dies :
  \E swi \in (IF s.recording /\ o[1].kind = "interrupt" THEN BOOLEAN ELSE {FALSE}) :
     LET zombie == o[4]
         kk == IF zombie THEN CHOOSE k \in KStops : k.kind = "exit" ELSE o[1]
     IN /\ s.fatal \/ WaitEnv(s, kk, o[2], o[3], die, swi, zombie)
        /\ Becomes(wait(s, kk, o[2], o[3], die, swi, zombie))

\* resume_execution(how, RESUME_WAIT, tick_period, sig)
DoResumeExecutionWait(in) ==
  /\ ~fatal
  /\ \E tp \in in.periods : DoWait(resume_execution(Cur, tp), in)

\* resume_execution(how, RESUME_NONBLOCKING, tick_period, sig)
DoResumeExecutionNonblocking(in) ==
  /\ ~fatal
  /\ \E tp \in in.periods : Becomes(resume_execution(Cur, tp))

\* wait() on a task that is not at a stop
DoWaitCall(in) ==
  /\ ~fatal
  /\ ~is_stopped
  /\ DoWait(Cur, in)

\* try_wait(): waitpid(WNOHANG) finds a stop of the running tracee, or none
DoTryWait(in) ==
  /\ ~fatal
  /\ ~is_stopped
  /\ tracee = "running"
  /\ \/ \E k \in {x \in KStops : x.kind \in in.kinds}, regs \in in.regs, d \in in.deltas,
           die \in in.dies :
          /\ CanStop(Cur, k, regs, d)
          /\ k.kind = "killed" => regs = CHOOSE r \in in.regs : TRUE
          /\ Becomes(did_waitpid(Frame(KernelStop(Cur, k, regs), k.status, FALSE, NoSiginfo,
                                       d, KSiginfo(k), die)))
     \/ Becomes(Cur)

\* a SIGKILL reaches the stopped tracee: it advances to its PTRACE_EVENT_EXIT
\* stop, or dies without one
DoKill ==
  /\ ~fatal
  /\ tracee = "stopped"
  /\ kstop # "exit"
  /\ \/ Becomes([Cur EXCEPT !.tracee = "exit_pending"])
     \/ Becomes(Dead(Cur))

\* the recorder's current event changes between stops
DoSetEv ==
  /\ ~fatal
  /\ recording
  /\ is_stopped
  /\ \E e \in Events \ {ev} : Becomes([Cur EXCEPT !.ev = e])

DoPostExec ==
  /\ ~fatal
  /\ is_stopped
  /\ kstop \in {"exec", "syscall_exit"}
  /\ \E a \in Archs, garbage \in RegVals :
        /\ ptrace_ok(Cur) => garbage = tregs
        /\ Becomes(post_exec(Cur, a, garbage))

DoCopyState ==
  /\ ~fatal
  /\ is_stopped
  /\ \E state \in CapturedStates : Becomes(copy_state(Cur, state))

DoFlushInconsistentState ==
  /\ ~fatal
  /\ Becomes(flush_inconsistent_state(Cur))

(***************************************************************************)
(* Spec: the stop machine with the tracee's registers varying.  The perf   *)
(* counter reads no ticks, and the tracee is not interrupted in a time     *)
(* slice.                                                                  *)
(***************************************************************************)
StopInputs == [periods |-> {"RESUME_UNLIMITED_TICKS"},
               kinds |-> {"bkpt", "trap", "signal", "syscall_exit", "exec", "exit", "killed"},
               regs |-> RegVals,
               deltas |-> {0},
               dies |-> DiePoints]

ResumeExecutionWait == DoResumeExecutionWait(StopInputs)

ResumeExecutionNonblocking == DoResumeExecutionNonblocking(StopInputs)

Wait == DoWaitCall(StopInputs)

TryWait == DoTryWait(StopInputs)

Kill == DoKill

SetEv == DoSetEv

PostExec == DoPostExec

Next ==
  \/ ResumeExecutionWait
  \/ ResumeExecutionNonblocking
  \/ Wait
  \/ TryWait
  \/ Kill
  \/ SetEv
  \/ PostExec

InitDebugRegs ==
  /\ dr = NoDebugRegs
  /\ dbg_ret = "none"

Init == InitStop /\ InitDebugRegs /\ InitSyscallbuf /\ InitRest

Spec == Init /\ [][Next]_vars

(***************************************************************************)
(* SpecOrder: the operations of one task in any order, the ones that need  *)
(* a stop called with the tracee running too.                              *)
(***************************************************************************)
OrderInputs == [periods |-> TickPeriods,
                kinds |-> {"trap", "signal", "syscall_exit", "exit", "killed"},
                regs |-> {Reg(1, 1, 582, 582, -1), Reg(2, -1, 582, 770, 7)},
                deltas |-> {0},
                dies |-> {"none"}]

\* what the operation op did when it took the task from s to r
Observed(op, s, r) ==
  [r EXCEPT !.observed = [op |-> op, was_stopped |-> s.is_stopped,
                          esrch |-> ~ptrace_ok(s),
                          last_resume |-> s.address_of_last_execution_resume,
                          aborted |-> r.fatal,
                          continued |-> r.tracee # s.tracee \/ r.kstop # s.kstop,
                          wrote |-> r.tregs # s.tregs \/ r.registers # s.registers,
                          returned |-> r.regs_result.returned]]

\* resume_execution(how, RESUME_WAIT, tick_period, sig)
OrderResumeExecutionWait ==
  /\ ~fatal
  /\ \E tp \in OrderInputs.periods :
       LET r == resume_execution(Cur, tp)
       IN IF r.fatal THEN Becomes(Observed("resume_execution", Cur, r))
          ELSE DoWait(r, OrderInputs)

\* resume_execution(how, RESUME_NONBLOCKING, tick_period, sig)
OrderResumeExecutionNonblocking ==
  /\ ~fatal
  /\ \E tp \in OrderInputs.periods :
       Becomes(Observed("resume_execution", Cur, resume_execution(Cur, tp)))

OrderWait == DoWaitCall(OrderInputs)

OrderTryWait == DoTryWait(OrderInputs)

OrderKill == DoKill

\* regs()
Regs ==
  /\ ~fatal
  /\ Becomes(Observed("regs", Cur, Task_regs(Cur)))

\* set_regs(regs)
SetRegs ==
  /\ ~fatal
  /\ \E r \in OrderInputs.regs : Becomes(Observed("set_regs", Cur, set_regs(Cur, r)))

\* get_ptrace_eventmsg_pid()
GetPtraceEventmsgPid ==
  /\ ~fatal
  /\ Becomes(Observed("get_ptrace_eventmsg_pid", Cur, get_ptrace_eventmsg_pid(Cur)))

\* get_ptrace_eventmsg_seccomp_data()
GetPtraceEventmsgSeccompData ==
  /\ ~fatal
  /\ Becomes(Observed("get_ptrace_eventmsg_seccomp_data", Cur,
                      get_ptrace_eventmsg_seccomp_data(Cur)))

\* extra_regs()
OrderExtraRegs ==
  /\ ~fatal
  /\ Becomes(Observed("extra_regs", Cur, extra_regs(Cur, ptrace_ok(Cur))))

NextOrder ==
  \/ OrderResumeExecutionWait
  \/ OrderResumeExecutionNonblocking
  \/ OrderWait
  \/ OrderTryWait
  \/ OrderKill
  \/ Regs
  \/ SetRegs
  \/ GetPtraceEventmsgPid
  \/ GetPtraceEventmsgSeccompData
  \/ OrderExtraRegs

SpecOrder == Init /\ [][NextOrder]_vars

(***************************************************************************)
(* SpecTicks: the stop machine with the perf counter counting.  The        *)
(* tracee stops with one register file, and dies only between operations.  *)
(***************************************************************************)
TickInputs == [periods |-> TickPeriods,
               kinds |-> {"syscall_entry", "syscall_exit", "signal", "interrupt", "exit", "killed"},
               regs |-> {Reg(2, 1, 582, 582, -1)},
               deltas |-> 0 .. 1,
               dies |-> {"none"}]

TicksResumeExecutionWait == DoResumeExecutionWait(TickInputs)

TicksResumeExecutionNonblocking == DoResumeExecutionNonblocking(TickInputs)

TicksWait == DoWaitCall(TickInputs)

TicksTryWait == DoTryWait(TickInputs)

CopyState == DoCopyState

FlushInconsistentState == DoFlushInconsistentState

NextTicks ==
  \/ TicksResumeExecutionWait
  \/ TicksResumeExecutionNonblocking
  \/ TicksWait
  \/ TicksTryWait
  \/ Kill
  \/ PostExec
  \/ CopyState
  \/ FlushInconsistentState

SpecTicks == Init /\ [][NextTicks]_vars

(***************************************************************************)
(* SpecExit: the operations of SpecTicks and finish_emulated_syscall, up   *)
(* to and after the PTRACE_EVENT_EXIT of the tracee.                       *)
(***************************************************************************)
\* finish_emulated_syscall, lines 123-149: regs(), the breakpoint at the ip
\* unless the instruction is known to be idempotent, and the resume
fes_resume(s, known_idempotent) ==
  IF s.fatal THEN s
  ELSE IF ~s.is_stopped THEN Abort(s)
  ELSE resume_execution(
         [s EXCEPT !.breakpoints = IF known_idempotent THEN @ ELSE @ \cup {s.registers.ip}],
         "RESUME_NO_TICKS")

\* lines 151-160, after the wait: r and bps are the registers and the
\* breakpoints at the call, ignored tells whether the session ignores the
\* pending signal
fes_finish(s, r, bps, known_idempotent, ignored) ==
  IF s.fatal THEN s
  ELSE IF ~known_idempotent /\ pending_sig_asserts(s.wait_status) THEN Abort(s)
  ELSE IF ~known_idempotent /\ pending_sig(s) # SIGTRAP /\ ~ignored THEN Abort(s)
  ELSE IF set_regs([s EXCEPT !.breakpoints = bps], r).fatal
  THEN set_regs([s EXCEPT !.breakpoints = bps], r)
  ELSE [set_regs([s EXCEPT !.breakpoints = bps], r) EXCEPT !.wait_status = 0]

FinishEmulatedSyscall ==
  \E known_idempotent, ignored \in BOOLEAN :
  \E o \in WaitOutcomes(fes_resume(Cur, known_idempotent), TickInputs) :
  \E swi \in (IF recording /\ o[1].kind = "interrupt" THEN BOOLEAN ELSE {FALSE}) :
    /\ ~fatal
    /\ \/ fes_resume(Cur, known_idempotent).fatal
       \/ WaitEnv(fes_resume(Cur, known_idempotent),
                  IF o[4] THEN CHOOSE k \in KStops : k.kind = "exit" ELSE o[1],
                  o[2], o[3], "none", swi, o[4])
    /\ Becomes(fes_finish(wait(fes_resume(Cur, known_idempotent),
                               IF o[4] THEN CHOOSE k \in KStops : k.kind = "exit" ELSE o[1],
                               o[2], o[3], "none", swi, o[4]),
                          registers, breakpoints, known_idempotent, ignored))

NextExit ==
  \/ TicksResumeExecutionWait
  \/ TicksResumeExecutionNonblocking
  \/ TicksWait
  \/ TicksTryWait
  \/ Kill
  \/ PostExec
  \/ CopyState
  \/ FinishEmulatedSyscall

SpecExit == Init /\ [][NextExit]_vars

(***************************************************************************)
(* SpecDebugRegs: a task at a stop whose debug registers are programmed    *)
(* again and again, while the tracee runs into its watchpoints or dies.    *)
(***************************************************************************)
Watchpoints == { [addr |-> 16, num_bytes |-> 4, type |-> 1],
                 [addr |-> 32, num_bytes |-> 8, type |-> 3] }

RECURSIVE SeqsUpTo(_, _)
SeqsUpTo(S, n) ==
  IF n = 0 THEN {<<>>}
  ELSE SeqsUpTo(S, n - 1) \cup {Append(q, x) : q \in {r \in SeqsUpTo(S, n - 1) : Len(r) = n - 1},
                                               x \in S}

WatchLists == SeqsUpTo(Watchpoints, MaxWatchpoints)

Fault(fail_addr, fail_dr7, die_at) ==
  [fail_addr |-> fail_addr, fail_dr7 |-> fail_dr7, die_at |-> die_at]

\* at most one thing goes wrong in one call
Faults ==
  {Fault(0, FALSE, 0), Fault(0, TRUE, 0)}
    \cup {Fault(i, FALSE, 0) : i \in 1 .. NUM_X86_WATCHPOINTS}
    \cup {Fault(0, FALSE, n) : n \in 1 .. 3}

\* the task right after did_waitpid committed a signal stop
InitStoppedTaskOf(is_recording) ==
  /\ recording = is_recording
  /\ arch = "x86_64"
  /\ is_stopped = TRUE
  /\ wait_status = StatusOf(0, SIGSTOP)
  /\ registers = Reg(1, -1, NORMAL_FLAGS, NORMAL_FLAGS, -1)
  /\ pending_siginfo = [si_signo |-> SIGSTOP, si_code |-> 0, si_fd |-> 0]
  /\ seen_ptrace_exit_event = FALSE
  /\ detected_unexpected_exit = FALSE
  /\ extra_registers_known = FALSE
  /\ ticks = 0
  /\ address_of_last_execution_resume = 1
  /\ hpc_started = TRUE
  /\ breakpoints = {}
  /\ ev = "syscall"
  /\ fatal = FALSE
  /\ tracee = "stopped"
  /\ kstop = "signal"
  /\ tregs = Reg(1, -1, NORMAL_FLAGS, NORMAL_FLAGS, -1)
  /\ r11_read = NORMAL_FLAGS
  /\ committed = TRUE
  /\ after_exec = FALSE
  /\ orig_at_resume = 0
  /\ ticks_read = 0
  /\ did_waitpid_calls = 0
  /\ regs_result = NoRegsResult
  /\ observed = NotObserved

InitStoppedTask == InitStoppedTaskOf(TRUE)

BecomesDebug(f) ==
  /\ dr' = (IF f.fatal THEN NoDebugRegs ELSE f.dr)
  /\ dbg_ret' = (IF f.fatal THEN "none" ELSE f.ret)
  /\ BecomesTask([Cur EXCEPT !.tracee = f.tracee, !.fatal = f.fatal])
  /\ UNCHANGED <<sbVars, restVars>>

SetDebugRegs ==
  /\ ~fatal
  /\ is_stopped
  /\ \E regs \in WatchLists, x \in Faults :
        BecomesDebug(set_debug_regs(DebugFrame(regs, x.fail_addr, x.fail_dr7, x.die_at)))

\* the resumed tracee runs into enabled watchpoint i and stops again with
\* bit i of DR6 set
HitWatchpoint ==
  /\ ~fatal
  /\ tracee = "stopped"
  /\ \E i \in 0 .. 3 :
        /\ (dr[7].lo \div Pow2(2 * i)) % 2 = 1
        /\ (dr[6].lo \div Pow2(i)) % 2 = 0
        /\ dr' = [dr EXCEPT ![6].lo = @ + Pow2(i)]
  /\ dbg_ret' = "none"
  /\ UNCHANGED <<stopVars, sbVars, restVars>>

NextDebugRegs ==
  \/ SetDebugRegs
  \/ HitWatchpoint
  \/ Kill

InitStopped == InitStoppedTask /\ InitDebugRegs /\ InitSyscallbuf /\ InitRest

SpecDebugRegs == InitStopped /\ [][NextDebugRegs]_vars

(***************************************************************************)
(* SpecSyscallbuf: a task and the task it clones, their syscall buffers    *)
(* and what the tracees do to their own memory.                            *)
(***************************************************************************)
SbBecomes(s) ==
  /\ tasks' = s.tasks
  /\ shadow' = s.shadow
  /\ kmem' = s.kmem
  /\ tracer_maps' = s.tracer_maps
  /\ content' = s.content
  /\ nonce' = s.nonce
  /\ UNCHANGED <<stopVars, debugVars, restVars>>

Live(t) == tasks[t].state = "live"

\* the tasks of address space 1 run between their stops; a forked child is
\* followed up to the stop its clone leaves it at
Running(t) == Live(t) /\ tasks[t].vm = 1

\* in a recording the hint is null and the kernel picks both addresses; in a
\* replay the hint is the address recorded
InitSyscallBuffer ==
  \E t \in TaskIds, map_addr \in Pages, child_map_addr \in Pages, fd \in DeschedFds :
    /\ Running(t)
    /\ tasks[t].syscallbuf_child = 0
    /\ nonce < MaxNonce
    /\ k_free(tracer_maps, map_addr, SYSCALLBUF_BUFFER_SIZE)
    /\ k_free(kmem[tasks[t].vm], child_map_addr, SYSCALLBUF_BUFFER_SIZE)
    /\ SbBecomes(init_buffers_arch(SbCur, t, IF recording THEN 0 ELSE child_map_addr, map_addr,
                                   child_map_addr, fd, recording))

DestroyBuffers ==
  \E t \in TaskIds :
    /\ Running(t)
    /\ SbBecomes(destroy_buffers(SbCur, t, recording))

\* the task is deleted, after destroy_buffers or without it
DestroyLocalBuffers ==
  \E t \in TaskIds :
    /\ tasks[t].state \in {"live", "torn_down"}
    /\ SbBecomes(destroy_local_buffers(SbCur, t))

Lens == 1 .. SYSCALLBUF_BUFFER_SIZE

AllCalls ==
  [no : {"munmap", "mprotect", "mremap"}, failed : BOOLEAN, addr : Pages, len : Lens,
   new_addr : 0 .. NumPages, new_len : 0 .. SYSCALLBUF_BUFFER_SIZE, prot : {"", "r"}]

\* the syscalls a tracee with page table k can have completed: munmap fails
\* only for its arguments, mprotect fails on a range with a hole, mremap is
\* taken when it succeeded
Calls(k) ==
  {c \in AllCalls :
     /\ c.addr + c.len - 1 <= NumPages
     /\ c.no = "munmap" => c.new_addr = 0 /\ c.new_len = 0 /\ c.prot = ""
     /\ c.no = "mprotect" =>
          /\ c.new_addr = 0 /\ c.new_len = 0 /\ c.prot = "r"
          /\ c.failed <=> \E p \in c.addr .. c.addr + c.len - 1 : k[p] = NoPage
     /\ c.no = "mremap" =>
          /\ ~c.failed /\ c.prot = "" /\ c.new_addr # 0 /\ c.new_len # 0
          /\ k_can_remap(k, c.addr, c.len, c.new_addr, c.new_len)}

\* a tracee's munmap, mprotect or mremap, and the hook at its syscall exit
TraceeSyscall ==
  \E t \in TaskIds :
    /\ Running(t)
    /\ \E call \in Calls(kmem[tasks[t].vm]) :
          SbBecomes(on_syscall_exit_arch(kernel_syscall(SbCur, t, call), t, call))

\* an exec of a tracee that is alone in its address space
PostExecBuffers ==
  \E t \in TaskIds :
    /\ Running(t)
    /\ \A u \in TaskIds \ {t} : Live(u) => tasks[u].vm # tasks[t].vm
    /\ SbBecomes(post_exec_buffers(SbCur, t))

Clone ==
  /\ Live("parent")
  /\ tasks["child"].state = "none"
  /\ \E share_vm \in BOOLEAN, same_session \in BOOLEAN :
        /\ share_vm => same_session
        /\ SbBecomes(clone(SbCur, share_vm, same_session))

\* a running tracee stores into the header of a buffer it has mapped
TraceeWrite ==
  \E t \in TaskIds, a \in Pages, h \in {Hdr(0, 1)} :
    /\ Running(t)
    /\ kmem[tasks[t].vm][a].obj # 0
    /\ kmem[tasks[t].vm][a].off = 0
    /\ content[kmem[tasks[t].vm][a].obj] # h
    /\ SbBecomes([SbCur EXCEPT !.content[kmem[tasks[t].vm][a].obj] = h])

NextSyscallbuf ==
  \/ InitSyscallBuffer
  \/ DestroyBuffers
  \/ TraceeSyscall
  \/ PostExecBuffers
  \/ Clone
  \/ TraceeWrite

InitBuffers == InitStoppedTask /\ InitDebugRegs /\ InitSyscallbuf /\ InitRest

SpecSyscallbuf == InitBuffers /\ [][NextSyscallbuf]_vars

(***************************************************************************)
(* SpecTeardown: the tasks of a recording or of a replay get their syscall *)
(* buffers, change their mappings, are cloned, have their buffers          *)
(* destroyed and are deleted.                                              *)
(***************************************************************************)
NextTeardown ==
  \/ InitSyscallBuffer
  \/ TraceeSyscall
  \/ PostExecBuffers
  \/ Clone
  \/ DestroyBuffers
  \/ DestroyLocalBuffers

InitTeardown ==
  /\ \E is_recording \in BOOLEAN : InitStoppedTaskOf(is_recording)
  /\ InitDebugRegs /\ InitSyscallbuf /\ InitRest

SpecTeardown == InitTeardown /\ [][NextTeardown]_vars

(***************************************************************************)
(* SpecWait: Task::wait step by step.  The tracee runs, stops on its own   *)
(* or is killed; with a deadline the alarm interrupts waitpid and wait     *)
(* sends PTRACE_INTERRUPT.  The alarm goes off only while waitpid blocks   *)
(* with nothing to report: the deadline is long against the time between   *)
(* setitimer and waitpid.  The kernel stops an interrupted tracee, the     *)
(* timer fires, and the tracer takes its steps: these are the fairness     *)
(* conditions of SpecWait.                                                 *)
(***************************************************************************)
WaitLoopBecomes(s, pc, dl, swi, kr, intr, raw, h) ==
  /\ BecomesTask(s)
  /\ wpc' = pc
  /\ interrupt_after_elapsed' = dl
  /\ sent_interrupt' = swi
  /\ kreport' = kr
  /\ interrupted' = intr
  /\ wraw' = raw
  /\ wloop' = h
  /\ UNCHANGED <<debugVars, sbVars, memVars, lifeVars, agg, nameVars, hookVars, lateVars>>

WaitBecomes(s, pc, dl, swi, kr, intr, raw) == WaitLoopBecomes(s, pc, dl, swi, kr, intr, raw, wloop)

\* resume_execution(how, RESUME_NONBLOCKING, tick_period, sig)
WaitResume ==
  /\ wpc = "idle"
  /\ ~fatal /\ ~destroyed
  /\ is_stopped
  /\ ptrace_ok(Cur)
  /\ \E tp \in TickPeriods :
       WaitLoopBecomes(resume_execution(Cur, tp), "idle", FALSE, FALSE, NoReport, interrupted,
                       NoRaw, NoLoop)

\* lines 960-974: wait is entered
WaitEnter ==
  /\ wpc = "idle"
  /\ ~fatal /\ ~destroyed
  /\ ~is_stopped
  /\ \E dl \in BOOLEAN :
       /\ dl => recording
       /\ IF unstable
          THEN WaitLoopBecomes(Abort(Cur), "idle", dl, FALSE, kreport, interrupted, NoRaw, NoLoop)
          ELSE IF detected_unexpected_exit
          THEN WaitLoopBecomes(wait(Cur, CHOOSE k \in KStops : k.kind = "exit", tregs, 0, "none",
                                    FALSE, FALSE),
                               "idle", dl, FALSE, kreport, interrupted, NoRaw, NoLoop)
          ELSE WaitLoopBecomes(Cur, "waitpid", dl, FALSE, kreport, interrupted, NoRaw,
                               arm_timer(NoLoop, dl))

\* the tracee enters a ptrace-stop of its own
TraceeStops ==
  /\ ~fatal /\ ~destroyed
  /\ tracee = "running"
  /\ kreport = NoReport
  /\ \E k \in OwnStops :
       WaitBecomes(Cur, wpc, interrupt_after_elapsed, sent_interrupt, k, interrupted, wraw)

\* the tracee is killed while it runs
TraceeKilled ==
  /\ ~fatal /\ ~destroyed
  /\ tracee = "running"
  /\ kreport = NoReport
  /\ WaitBecomes(Dead(Cur), wpc, interrupt_after_elapsed, sent_interrupt, kreport, FALSE, wraw)

\* the kernel stops the tracee for a pending PTRACE_INTERRUPT
InterruptStops ==
  /\ ~fatal /\ ~destroyed
  /\ tracee = "running"
  /\ kreport = NoReport
  /\ interrupted
  /\ \E k \in InterruptStopsOf :
       WaitBecomes(Cur, wpc, interrupt_after_elapsed, sent_interrupt, k, FALSE, wraw)

\* lines 976-989: the timer set before waitpid goes off, waitpid fails with EINTR
Alarm ==
  /\ ~fatal /\ ~destroyed
  /\ wpc = "waitpid"
  /\ interrupt_after_elapsed
  /\ kreport = NoReport
  /\ tracee \in {"running", "dead"}
  /\ WaitBecomes(Cur, "eintr", interrupt_after_elapsed, sent_interrupt, kreport, interrupted,
                 wraw)

\* lines 991-1008, and on to did_waitpid if the process is a zombie
AfterEintr ==
  /\ ~fatal /\ ~destroyed
  /\ wpc = "eintr"
  /\ \E e \in {after_eintr(is_zombie_process(Cur), sent_interrupt)} :
     \E h \in {IF e.send THEN [wloop EXCEPT !.interrupts = Min(@ + 1, MaxLoopCount)] ELSE wloop} :
       IF e.break
       THEN \E s \in {wait(Cur, CHOOSE k \in KStops : k.kind = "exit", tregs, 0, "none",
                            sent_interrupt, TRUE)} :
              WaitLoopBecomes(s, "idle", interrupt_after_elapsed, sent_interrupt, kreport,
                              interrupted,
                              [valid |-> TRUE, sent |-> sent_interrupt, kind |-> "zombie",
                               status |-> ptrace_exit_wait_status], h)
       ELSE WaitLoopBecomes(Cur, "waitpid", interrupt_after_elapsed, sent_interrupt \/ e.send,
                            kreport, interrupted \/ (e.send /\ tracee = "running"), wraw,
                            arm_timer(h, interrupt_after_elapsed))

\* lines 981-989 and 1011-1058: waitpid returns a status, wait commits it
WaitReturns ==
  /\ ~fatal /\ ~destroyed
  /\ wpc = "waitpid"
  /\ kreport # NoReport \/ tracee = "dead"
  /\ \E k \in (IF tracee = "dead" THEN {x \in KStops : x.kind = "killed"} ELSE {kreport}) :
     \E s \in {wait(Cur, k, StopRegs, 0, "none", sent_interrupt, FALSE)} :
       WaitBecomes(s, "idle", interrupt_after_elapsed, sent_interrupt, NoReport, interrupted,
                   [valid |-> TRUE, sent |-> sent_interrupt, kind |-> k.kind,
                    status |-> k.status])

\* the kernel has the tracee in a ptrace-stop, reported by waitpid or not
InPtraceStop == ptrace_ok(Cur) \/ (tracee = "running" /\ kreport # NoReport)

\* extra_regs() between two calls of wait
ExtraRegs ==
  /\ wpc = "idle"
  /\ ~fatal /\ ~destroyed
  /\ WaitBecomes(extra_regs(Cur, InPtraceStop), wpc, interrupt_after_elapsed, sent_interrupt,
                 kreport, interrupted, wraw)

\* set_extra_regs() between two calls of wait
SetExtraRegs ==
  /\ wpc = "idle"
  /\ ~fatal /\ ~destroyed
  /\ WaitBecomes(set_extra_regs(Cur), wpc, interrupt_after_elapsed, sent_interrupt,
                 kreport, interrupted, wraw)

\* the session marks the task unstable
MarkUnstable ==
  /\ wpc = "idle"
  /\ ~fatal /\ ~destroyed
  /\ ~unstable
  /\ unstable' = TRUE
  /\ UNCHANGED <<stopVars, debugVars, sbVars, memVars, waitVars, destroyed, destroy_called, agg, nameVars, hookVars, lateVars>>

\* destroy() between two calls of wait
Destroy ==
  /\ wpc = "idle"
  /\ ~fatal /\ ~destroyed
  /\ \E s \in {destroy(Cur, unstable, mem_fd)} :
       /\ BecomesTask(s)
       /\ destroyed' = ~s.fatal
       /\ destroy_called' = TRUE
       /\ UNCHANGED <<debugVars, sbVars, memVars, waitVars, unstable, agg, nameVars, hookVars, lateVars>>

NextWait ==
  \/ WaitResume
  \/ WaitEnter
  \/ TraceeStops
  \/ TraceeKilled
  \/ InterruptStops
  \/ Alarm
  \/ AfterEintr
  \/ WaitReturns
  \/ ExtraRegs
  \/ SetExtraRegs
  \/ MarkUnstable
  \/ Destroy

InitWait == InitStoppedTask /\ InitDebugRegs /\ InitSyscallbuf /\ InitRest

\* the steps of AfterEintr and of WaitReturns, told by the position of wait
AfterEintrStep == ~fatal /\ ~destroyed /\ wpc = "eintr" /\ wpc' \in {"waitpid", "idle"}

WaitReturnsStep ==
  ~fatal /\ ~destroyed /\ wpc = "waitpid" /\ (kreport # NoReport \/ tracee = "dead") /\ wpc' = "idle"

\* the timer fires and the kernel stops an interrupted tracee; the tracer,
\* a sequential program, takes its next step when it can
SpecWait ==
  /\ InitWait
  /\ [][NextWait]_vars
  /\ WF_vars(Alarm)
  /\ WF_vars(InterruptStops)
  /\ WF_wpc(AfterEintrStep)
  /\ WF_wpc(WaitReturnsStep)

(***************************************************************************)
(* SpecMem: transfers to and from the memory of a stopped tracee, through  *)
(* the mem fd or, without one, through ptrace.                             *)
(***************************************************************************)
MemBecomes(op, f, got) ==
  /\ mem' = f.mem
  /\ kprot' = f.kprot
  /\ as_prot' = f.as_prot
  /\ mem_fd' = f.mem_fd
  /\ io' = [op |-> op, addr |-> f.addr, n |-> f.n, buf |-> f.buf, has_ok |-> f.has_ok,
            ok |-> f.ok, ret |-> f.nwritten, moved |-> f.moved, fatal |-> f.fatal,
            fixed |-> f.fixed, fd |-> mem_fd, got |-> got]
  /\ UNCHANGED <<stopVars, debugVars, sbVars, waitVars, lifeVars, agg, nameVars, hookVars, lateVars>>

\* the bytes a caller writes: 1 and 2 in turn
Pattern(n) == [i \in 1 .. n |-> 1 + (i % 2)]

WriteBytes ==
  \E addr \in Addrs, n \in 0 .. MaxLen, has_ok \in BOOLEAN :
    /\ ~io.fatal
    /\ MemBecomes("write", write_bytes_helper(MemFrame(addr, n, Pattern(n), has_ok)), <<>>)

\* read_bytes_fallible over the range just written
ReadBack ==
  /\ ~io.fatal
  /\ io.op = "write"
  /\ MemBecomes("readback",
                [MemFrame(io.addr, io.n, io.buf, io.has_ok) EXCEPT
                   !.ok = io.ok,
                   !.nwritten = read_bytes_fallible(mem, kprot, mem_fd, io.addr, io.n),
                   !.mem_fd = IF @ = "stale" /\ io.n > 0 THEN "open" ELSE @],
                Load(mem, io.addr, Max(0, read_bytes_fallible(mem, kprot, mem_fd, io.addr, io.n))))

ReadBytes ==
  \E addr \in Addrs, n \in 0 .. MaxLen, has_ok \in BOOLEAN :
    /\ ~io.fatal
    /\ MemBecomes("read", read_bytes_helper(MemFrame(addr, n, <<>>, has_ok)), <<>>)

NextMem == WriteBytes \/ ReadBack \/ ReadBytes

InitMemAny ==
  /\ InitStoppedTask
  /\ InitDebugRegs
  /\ InitSyscallbuf
  /\ mem = [a \in Addrs |-> 0]
  /\ kprot \in {Layout(k) : k \in 0 .. 3}
  /\ as_prot = kprot
  /\ mem_fd \in {"closed", "stale", "open"}
  /\ io = NoIo
  /\ InitWaitLoop
  /\ InitLife
  /\ InitAgg
  /\ InitPrname
  /\ InitLate
  /\ InitHook

SpecMem == InitMemAny /\ [][NextMem]_vars

(***************************************************************************)
(* SpecMembers: tasks are spawned, cloned, exec, unshare their fd table    *)
(* and are destroyed.                                                      *)
(***************************************************************************)
AggBecomes(w) ==
  /\ agg' = Renamed(w)
  /\ UNCHANGED <<stopVars, debugVars, sbVars, memVars, waitVars, lifeVars, nameVars, hookVars, lateVars>>

Spawn ==
  /\ agg.live = {}
  /\ AggBecomes(spawn(agg, 1))

\* session.new_task: the new task is the first number not in use
NewTaskNums == {t \in TaskNums \ agg.live : \A u \in TaskNums \ agg.live : t <= u}

CloneTask ==
  \E p \in agg.live, t \in NewTaskNums, share_tg, share_vm, share_files \in BOOLEAN :
    AggBecomes(clone_task(agg, p, t, share_tg, share_vm, share_files))

PostExecRebind ==
  \E t \in agg.live : AggBecomes(post_exec_rebind(agg, t))

Unshare ==
  \E t \in agg.live, failed, clone_files \in BOOLEAN :
    AggBecomes(unshare(agg, t, failed, clone_files))

DestroyTask ==
  \E t \in agg.live : AggBecomes(task_erase(agg, t))

NextMembers == Spawn \/ CloneTask \/ PostExecRebind \/ Unshare \/ DestroyTask

InitMembers == InitStoppedTask /\ InitDebugRegs /\ InitSyscallbuf /\ InitRest

SpecMembers == InitMembers /\ [][NextMembers]_vars

(***************************************************************************)
(* SpecPrname: the names of a task and of its clone.                       *)
(***************************************************************************)
PrnameBecomes(pn, cap) ==
  /\ prname' = pn
  /\ captured_prname' = cap
  /\ UNCHANGED <<stopVars, debugVars, sbVars, memVars, waitVars, lifeVars, agg, hookVars, lateVars>>

\* on_syscall_exit of prctl(PR_SET_NAME), lines 370-377
UpdatePrname ==
  \E t \in DOMAIN prname, buf \in NameBufs :
    PrnameBecomes([prname EXCEPT ![t] = update_prname(buf)], captured_prname)

\* post_exec, line 515
PostExecPrname ==
  \E t \in DOMAIN prname, e \in ExeImages :
    PrnameBecomes([prname EXCEPT ![t] = prname_from_exe_image(e)], captured_prname)

\* clone, line 1435
ClonePrname ==
  PrnameBecomes([prname EXCEPT !["clone"] = prname["task"]], captured_prname)

\* capture_state, line 1552
CapturePrname ==
  \E t \in DOMAIN prname : PrnameBecomes(prname, prname[t])

\* copy_state, lines 1584-1591
CopyStatePrname ==
  \E t \in DOMAIN prname :
    PrnameBecomes([prname EXCEPT ![t] = copy_state_prname(captured_prname)], captured_prname)

NextPrname == UpdatePrname \/ PostExecPrname \/ ClonePrname \/ CapturePrname \/ CopyStatePrname

InitNames == InitStoppedTask /\ InitDebugRegs /\ InitSyscallbuf /\ InitRest

SpecPrname == InitNames /\ [][NextPrname]_vars

(***************************************************************************)
(* SpecSyscallExit: the syscalls of a task, each followed by the hook at   *)
(* its exit, while the task gets its syscall buffer and clones tasks that  *)
(* share its FdTable or not.                                               *)
(***************************************************************************)
HookCur ==
  [sb |-> SbCur, agg |-> agg, prname |-> prname, thread_areas |-> thread_areas,
   fd_monitored |-> fd_monitored]

HookBecomes(h, call) ==
  /\ tasks' = h.sb.tasks
  /\ shadow' = h.sb.shadow
  /\ kmem' = h.sb.kmem
  /\ tracer_maps' = h.sb.tracer_maps
  /\ content' = h.sb.content
  /\ nonce' = h.sb.nonce
  /\ agg' = Renamed(h.agg)
  /\ prname' = h.prname
  /\ thread_areas' = h.thread_areas
  /\ fd_monitored' = h.fd_monitored
  /\ last_call' = call
  /\ UNCHANGED <<stopVars, debugVars, memVars, waitVars, lifeVars, captured_prname, lateVars>>

HookNameBufs == {b \in NameBufs : b[PrnameBufSize] # NUL}

\* the arguments that a syscall no other than munmap, mprotect and mremap can
\* have had
HookArgs(no) ==
  [vm : {NoVmCall},
   desc : IF no = "set_thread_area" THEN UserDescs ELSE {[entry_number |-> 6, base_addr |-> 0]},
   option : IF no = "prctl" THEN {"PR_SET_NAME", "PR_GET_NAME"}
            ELSE IF no = "fcntl" THEN {"F_DUPFD", "F_GETFD"} ELSE {""},
   buf : IF no = "prctl" THEN HookNameBufs ELSE {CHOOSE b \in HookNameBufs : TRUE},
   from : IF no \in {"dup", "fcntl", "close"} THEN Fds ELSE {1},
   to : IF no \in {"dup", "fcntl"} THEN Fds ELSE {1},
   clone_files : IF no = "unshare" THEN BOOLEAN ELSE {FALSE}]

VmArgs(c) ==
  [vm |-> c, desc |-> [entry_number |-> 6, base_addr |-> 0], option |-> "",
   buf |-> CHOOSE b \in HookNameBufs : TRUE, from |-> 1, to |-> 1, clone_files |-> FALSE]

\* what the kernel did for the syscall, where the model holds it
hook_kernel(h, no, a) ==
  IF no \in VmSyscalls THEN [h EXCEPT !.sb = kernel_syscall(@, "parent", a.vm)] ELSE h

\* of a failed syscall: whether the hook took h to r without a change of what
\* it keeps up to date, and whether it took the shadow to the one that
\* protect() makes
HookCall(h, r, no, failed, a) ==
  IF ~failed THEN [NotCalled EXCEPT !.mprotect = (no = "mprotect")]
  ELSE [mprotect |-> no = "mprotect", failed |-> TRUE,
        kept |-> /\ r.sb.shadow = h.sb.shadow
                 /\ r.fd_monitored = h.fd_monitored
                 /\ r.agg = h.agg
                 /\ r.thread_areas = h.thread_areas
                 /\ r.prname = h.prname,
        protected |-> /\ no = "mprotect"
                      /\ r.sb.shadow = [h.sb.shadow EXCEPT ![h.sb.tasks["parent"].vm] =
                                           as_protect(@, a.vm.addr, a.vm.len, a.vm.prot)]]

DoSyscallExit(h, no, failed, a) ==
  HookBecomes(on_syscall_exit(h, no, failed, a),
              HookCall(h, on_syscall_exit(h, no, failed, a), no, failed, a))

\* a syscall of the tracee and on_syscall_exit at its exit
SyscallExit ==
  /\ 1 \in agg.live
  /\ Running("parent")
  /\ \/ \E c \in {x \in Calls(kmem[tasks["parent"].vm]) : x.no # "mremap"} :
          DoSyscallExit(hook_kernel(HookCur, c.no, VmArgs(c)), c.no, c.failed, VmArgs(c))
     \/ \E no \in HookSyscalls \ VmSyscalls, failed \in BOOLEAN :
          \E a \in HookArgs(no) : DoSyscallExit(HookCur, no, failed, a)

\* the task gets its syscall buffer
HookInitSyscallBuffer ==
  \E child_map_addr \in Pages :
    /\ Running("parent")
    /\ tasks["parent"].syscallbuf_child = 0
    /\ nonce < MaxNonce
    /\ k_free(kmem[tasks["parent"].vm], child_map_addr, SYSCALLBUF_BUFFER_SIZE)
    /\ SbBecomes(init_syscall_buffer(SbCur, "parent", 0, 1, child_map_addr))

\* the task clones one task, with CLONE_FILES or without
HookClone ==
  /\ agg.live = {1}
  /\ \E share_files \in BOOLEAN : AggBecomes(clone_task(agg, 1, 2, TRUE, TRUE, share_files))

NextSyscallExit ==
  \/ Spawn
  \/ HookClone
  \/ HookInitSyscallBuffer
  \/ SyscallExit

InitSyscallExit == InitStoppedTask /\ InitDebugRegs /\ InitSyscallbuf /\ InitRest

SpecSyscallExit == InitSyscallExit /\ [][NextSyscallExit]_vars

(***************************************************************************)
(* SpecReopen: read_bytes_fallible and write_bytes_helper with a mem fd,   *)
(* one call of pread64 or pwrite64 at a time.  The kernel transfers some   *)
(* of the bytes asked for, fails, or returns 0 without an error, also      *)
(* through the reopened descriptor.                                        *)
(***************************************************************************)
XferBecomes(x) ==
  /\ xfer' = x
  /\ UNCHANGED <<stopVars, debugVars, sbVars, memVars, waitVars, lifeVars, agg, nameVars, hookVars,
                 tls, kin, reap, trap, sp, wr>>

\* what pread64 or pwrite64 can return for a transfer of n bytes
IoResults(n) == [n : {-1}, errno : {5}] \cup [n : 0 .. n, errno : {0}]

ReadStart ==
  /\ xfer.pc = "idle" /\ ~xfer.fatal
  /\ \E n \in 1 .. MaxLen :
       XferBecomes([NoXfer EXCEPT !.op = "read", !.pc = "pread64", !.buf_size = n])

ReadTurn ==
  /\ xfer.pc = "pread64"
  /\ \E r \in IoResults(xfer.buf_size - xfer.done) :
       /\ (r.n = 0 /\ xfer.done = 0) => xfer.reopens < MaxReopens
       /\ XferBecomes(rbf_turn(xfer, r.n, r.errno))

WriteStart ==
  /\ xfer.pc = "idle" /\ ~xfer.fatal
  /\ \E n \in 1 .. MaxLen, has_ok \in BOOLEAN :
       XferBecomes([NoXfer EXCEPT !.op = "write", !.pc = "pwrite64", !.buf_size = n,
                                  !.has_ok = has_ok])

WriteTurn ==
  /\ xfer.pc = "pwrite64"
  /\ \E r \in IoResults(xfer.buf_size) :
       /\ r.n = 0 => xfer.reopens < MaxReopens
       /\ XferBecomes(wbh_turn(xfer, r.n, r.errno))

NextReopen == ReadStart \/ ReadTurn \/ WriteStart \/ WriteTurn

InitReopen == InitStoppedTask /\ InitDebugRegs /\ InitSyscallbuf /\ InitRest

SpecReopen == InitReopen /\ [][NextReopen]_vars

(***************************************************************************)
(* SpecThreadAreas: the thread areas of a task and of its clone under      *)
(* set_thread_area, clone, capture_state, copy_state and post_exec.        *)
(***************************************************************************)
TlsBecomes(x) ==
  /\ tls' = x
  /\ UNCHANGED <<stopVars, debugVars, sbVars, memVars, waitVars, lifeVars, agg, nameVars, hookVars,
                 xfer, kin, reap, trap, sp, wr>>

\* on_syscall_exit of a set_thread_area that succeeded, lines 366-368
TlsSetThreadArea ==
  \E t \in TlsTasks, desc \in TlsDescs :
    TlsBecomes([tls EXCEPT !.areas[t] = set_thread_area(@, desc),
                           !.writes[t] = Written(@, desc),
                           !.op = "set_thread_area", !.who = t,
                           !.replaced = \E i \in 1 .. Len(tls.areas[t]) :
                                           tls.areas[t][i].entry_number = desc.entry_number])

\* Task::clone, lines 1442-1445: the clone of the task
TlsClone ==
  \E set_tls \in BOOLEAN, desc \in TlsDescs :
    TlsBecomes([tls EXCEPT !.areas["clone"] =
                              clone_thread_areas(tls.areas["task"], tls.arch, set_tls, desc),
                           !.writes["clone"] =
                              IF set_tls /\ tls.arch = "x86"
                              THEN Written(tls.writes["task"], desc) ELSE tls.writes["task"],
                           !.op = "clone", !.who = "clone", !.replaced = set_tls])

\* capture_state, line 1553
TlsCapture ==
  \E t \in TlsTasks :
    /\ tls.captured # tls.areas[t]
    /\ TlsBecomes([tls EXCEPT !.captured = tls.areas[t], !.op = "capture_state", !.who = t,
                              !.replaced = FALSE])

\* copy_state, lines 1594-1595: the descriptors of the state are set in the
\* tracee one after the other and the sequence is taken over
TlsCopyState ==
  \E t \in TlsTasks :
    TlsBecomes([tls EXCEPT !.areas[t] = tls.captured,
                           !.writes[t] = WrittenAll(NoWrites, tls.captured),
                           !.op = "copy_state", !.who = t, !.replaced = FALSE])

\* post_exec, line 510, into either architecture
TlsPostExec ==
  \E t \in TlsTasks, a \in Archs :
    /\ t = "task"
    /\ TlsBecomes([tls EXCEPT !.arch = a, !.areas[t] = <<>>, !.writes[t] = NoWrites,
                              !.op = "post_exec", !.who = t, !.replaced = FALSE])

NextThreadAreas == TlsSetThreadArea \/ TlsClone \/ TlsCapture \/ TlsCopyState \/ TlsPostExec

InitThreadAreas == InitStoppedTask /\ InitDebugRegs /\ InitSyscallbuf /\ InitRest

SpecThreadAreas == InitThreadAreas /\ [][NextThreadAreas]_vars

(***************************************************************************)
(* SpecClone: Task::clone as a whole: the aggregates, the name and the     *)
(* thread areas of the new task.                                           *)
(***************************************************************************)
KinBecomes(w, k) ==
  /\ agg' = Renamed(w)
  /\ kin' = k
  /\ UNCHANGED <<stopVars, debugVars, sbVars, memVars, waitVars, lifeVars, nameVars, hookVars,
                 xfer, tls, reap, trap, sp, wr>>

\* the tasks of this specification at a time
MaxKin == 2

\* the descriptors and the names of this specification
KinDescs == {d \in TlsDescs : d.entry_number = 6 \/ d.base_addr = 0}

KinNameBufs == {b \in NameBufs : b[1] # NUL /\ b[2] = NUL}

\* Task::spawn of the first task, of either architecture
KinSpawn ==
  \E a \in Archs :
    /\ agg.live = {}
    /\ KinBecomes(spawn(agg, 1),
                  [kin EXCEPT !.arch = a, !.prname[1] = InitialPrname, !.last = NoClone])

\* on_syscall_exit of prctl(PR_SET_NAME), lines 370-377
KinUpdatePrname ==
  \E t \in agg.live, buf \in KinNameBufs :
    KinBecomes(agg, [kin EXCEPT !.prname[t] = update_prname(buf), !.last = NoClone])

\* on_syscall_exit of set_thread_area, lines 366-368
KinSetThreadArea ==
  \E t \in agg.live, desc \in KinDescs :
    KinBecomes(agg, [kin EXCEPT !.areas[t] = set_thread_area(@, desc), !.last = NoClone])

\* Task::clone, lines 1388-1447
KinClone ==
  \E p \in agg.live, t \in NewTaskNums, share_tg, share_vm, share_files, set_tls \in BOOLEAN,
     desc \in KinDescs :
    /\ Cardinality(agg.live) < MaxKin
    /\ KinBecomes(clone_task(agg, p, t, share_tg, share_vm, share_files),
               [clone_kin(kin, p, t, set_tls, desc)
                  EXCEPT !.last = [op |-> "clone", p |-> p, t |-> t, share_tg |-> share_tg,
                                   share_vm |-> share_vm, share_files |-> share_files,
                                   set_tls |-> set_tls,
                                   desc |-> IF set_tls THEN desc ELSE NoDesc]])

\* Task::~Task, lines 113-116
KinDestroy ==
  \E t \in agg.live :
    KinBecomes(task_erase(agg, t),
               [kin EXCEPT !.prname[t] = <<>>, !.areas[t] = <<>>, !.last = NoClone])

NextClone == KinSpawn \/ KinUpdatePrname \/ KinSetThreadArea \/ KinClone \/ KinDestroy

InitClone == InitStoppedTask /\ InitDebugRegs /\ InitSyscallbuf /\ InitRest

SpecClone == InitClone /\ [][NextClone]_vars

(***************************************************************************)
(* SpecReap: the tasks of a recording or of a replay are created and       *)
(* deleted; each has seen its PTRACE_EVENT_EXIT when it is deleted.        *)
(***************************************************************************)
ReapBecomes(w, r) ==
  /\ agg' = Renamed(w)
  /\ reap' = r
  /\ UNCHANGED <<stopVars, debugVars, sbVars, memVars, waitVars, lifeVars, nameVars, hookVars,
                 xfer, tls, kin, trap, sp, wr>>

\* Task::spawn in a new session
ReapSpawn ==
  \E is_recording \in BOOLEAN :
    /\ agg.live = {}
    /\ ReapBecomes(spawn(agg, 1), [NoReap EXCEPT !.recording = is_recording])

\* Task::clone
ReapClone ==
  \E p \in agg.live, t \in NewTaskNums, share_tg, share_vm, share_files \in BOOLEAN :
    ReapBecomes(clone_task(agg, p, t, share_tg, share_vm, share_files),
                [NoReap EXCEPT !.recording = reap.recording])

\* Task::~Task, lines 93-119
ReapDtor ==
  \E t \in agg.live, is_unstable \in BOOLEAN :
    ReapBecomes(task_erase(agg, t),
                [recording |-> reap.recording, op |-> "dtor", t |-> t, unstable |-> is_unstable,
                 last_member |-> agg.tg_tasks[agg.tg[t]] = {t},
                 waited |-> dtor_reaps(agg, t, is_unstable, reap.recording)])

NextReap == ReapSpawn \/ ReapClone \/ ReapDtor

InitReap == InitStoppedTask /\ InitDebugRegs /\ InitSyscallbuf /\ InitRest

SpecReap == InitReap /\ [][NextReap]_vars

(***************************************************************************)
(* SpecTrap: the tracee stops and compute_trap_reasons is asked why.       *)
(***************************************************************************)
TrapBecomes(x) ==
  /\ trap' = x
  /\ UNCHANGED <<stopVars, debugVars, sbVars, memVars, waitVars, lifeVars, agg, nameVars, hookVars,
                 xfer, tls, kin, reap, sp, wr>>

\* instruction addresses, and the si_code values: SI_KERNEL, TRAP_BRKPT,
\* TRAP_TRACE and TRAP_HWBKPT
TrapIps == 1 .. 3

TrapSiCodes == {SI_KERNEL, TRAP_BRKPT, 2, 4}

TrapStops ==
  [pending_sig : {SIGTRAP, SIGSTOP}, singlestep_bit : BOOLEAN, watchpoint_bits : BOOLEAN,
   changes : BOOLEAN, ip : TrapIps, last_resume : TrapIps \ {3},
   breakpoints : SUBSET (TrapIps \ {3}), exec_fired : {{}, {1}}, si_signo : {SIGTRAP, SIGSTOP},
   si_code : TrapSiCodes]

\* the running tracee stops
TrapStop ==
  \E i \in TrapStops :
    /\ trap = NoTrap
    /\ i.pending_sig = SIGTRAP => i.si_signo = SIGTRAP
    /\ TrapBecomes([in |-> i, done |-> FALSE, out |-> NoReasons])

\* Task::compute_trap_reasons
ComputeTrapReasons ==
  /\ ~trap.done
  /\ trap.in # NoTrapStop
  /\ TrapBecomes([trap EXCEPT !.done = TRUE, !.out = compute_trap_reasons(trap.in)])

\* the tracee is resumed
TrapResume ==
  /\ trap.done
  /\ TrapBecomes(NoTrap)

NextTrap == TrapStop \/ ComputeTrapReasons \/ TrapResume

InitTrap == InitStoppedTask /\ InitDebugRegs /\ InitSyscallbuf /\ InitRest

SpecTrap == InitTrap /\ [][NextTrap]_vars

(***************************************************************************)
(* SpecSpawn: Task::spawn from the return of fork, the tracer and the      *)
(* child running side by side.  Signals other than the child's SIGSTOP     *)
(* may stop the traced child.                                              *)
(***************************************************************************)
SpawnBecomes(x) ==
  /\ sp' = x
  /\ UNCHANGED <<stopVars, debugVars, sbVars, memVars, waitVars, lifeVars, agg, nameVars, hookVars,
                 xfer, tls, kin, reap, trap, wr>>

\* the stops by other signals in one spawn
MaxSignals == 3

OtherSignals == {SIGTRAP, SIGTSTP}

\* the tracer: PTRACE_SEIZE succeeds or fails
Seize ==
  \E ok \in BOOLEAN :
    /\ sp.tpc = "seize"
    /\ SpawnBecomes(seize(sp, ok))

\* the tracer: wait() returns the reported stop, and the turn of the loop
SpawnTurn ==
  /\ sp.tpc = "wait"
  /\ sp.report # 0
  /\ SpawnBecomes(spawn_turn(sp, sp.report))

\* the session resumes the task that spawn returned
ResumeSpawned ==
  /\ sp.tpc = "returned"
  /\ sp.is_stopped
  /\ SpawnBecomes([sp EXCEPT !.is_stopped = FALSE, !.child = "running",
                             !.resumed_by_tracer = TRUE, !.tpc = "done"])

\* the child: chdir and set_up_process, lines 2134-2135
ChildSetUp ==
  /\ sp.child = "running" /\ sp.cpc = "setup"
  /\ SpawnBecomes([sp EXCEPT !.cpc = "raise"])

ChildRaise ==
  /\ sp.child = "running" /\ sp.cpc = "raise"
  /\ SpawnBecomes(child_raise(sp))

ChildFilter ==
  /\ sp.child = "running" /\ sp.cpc = "filter"
  /\ SpawnBecomes(child_filter(sp))

\* the child: the dummy work and execvpe, lines 2150-2161
ChildExec ==
  /\ sp.child = "running" /\ sp.cpc = "work"
  /\ SpawnBecomes([sp EXCEPT !.cpc = "execed"])

\* a signal stops the traced child before it execs
ChildSignalled ==
  \E sig \in OtherSignals :
    /\ sp.child = "running" /\ sp.attached /\ sp.tpc = "wait"
    /\ sp.cpc # "execed"
    /\ sp.signals < MaxSignals
    /\ SpawnBecomes([sp EXCEPT !.child = "stopped", !.report = sig, !.signals = @ + 1])

\* the next spawn
SpawnAgain ==
  /\ sp.tpc \in {"done", "fatal"}
  /\ sp.tpc = "done" => sp.cpc = "execed"
  /\ SpawnBecomes(NoSpawn)

NextSpawn ==
  \/ Seize \/ SpawnTurn \/ ResumeSpawned \/ ChildSetUp \/ ChildRaise \/ ChildFilter
  \/ ChildExec \/ ChildSignalled \/ SpawnAgain

InitSpawn == InitStoppedTask /\ InitDebugRegs /\ InitSyscallbuf /\ InitRest

SpecSpawn == InitSpawn /\ [][NextSpawn]_vars

(***************************************************************************)
(* SpecWrite: write and writev exit with success and on_syscall_exit tells *)
(* the FdTable what was written.                                           *)
(***************************************************************************)
WrBecomes(x) ==
  /\ wr' = x
  /\ UNCHANGED <<stopVars, debugVars, sbVars, memVars, waitVars, lifeVars, agg, nameVars, hookVars,
                 xfer, tls, kin, reap, trap, sp>>

\* the iovecs of one writev, and the length of one
MaxIov == 3

MaxIovLen == 2

IovBases == {16, 32}

Iovecs == UNION {[1 .. n -> [iov_base : IovBases, iov_len : 0 .. MaxIovLen]] : n \in 0 .. MaxIov}

RECURSIVE SumLen(_, _)
SumLen(iovecs, n) == IF n = 0 THEN 0 ELSE SumLen(iovecs, n - 1) + iovecs[n].iov_len

\* on_syscall_exit of a write that wrote amount bytes, lines 401-410
WriteExit ==
  \E arg2 \in IovBases, amount \in 0 .. MaxIovLen :
    /\ wr = NoWrite
    /\ WrBecomes([call |-> "write", arg2 |-> arg2, iovecs |-> <<>>, result |-> amount,
                  ranges |-> write_ranges(arg2, amount)])

\* on_syscall_exit of a writev, lines 412-428; the kernel wrote no more
\* than the iovecs hold
WritevExit ==
  \E iovecs \in Iovecs :
    \E written \in 0 .. SumLen(iovecs, Len(iovecs)) :
      /\ wr = NoWrite
      /\ WrBecomes([call |-> "writev", arg2 |-> 0, iovecs |-> iovecs, result |-> written,
                    ranges |-> writev_ranges(iovecs, written, <<>>)])

\* the tracee goes on to its next syscall
WriteResumed ==
  /\ wr # NoWrite
  /\ WrBecomes(NoWrite)

NextWrite == WriteExit \/ WritevExit \/ WriteResumed

InitWrite == InitStoppedTask /\ InitDebugRegs /\ InitSyscallbuf /\ InitRest

SpecWrite == InitWrite /\ [][NextWrite]_vars

(***************************************************************************)
(* Properties of the stop machine.                                         *)
(***************************************************************************)
\* the tracee is in a ptrace-stop, so that PTRACE_GETREGS has an answer
Alive == tracee \in {"stopped", "exit_pending"}

AtBreakpointStop ==
  /\ committed /\ ~fatal
  /\ kstop = "bkpt"
  /\ address_of_last_execution_resume \in breakpoints
  /\ pending_sig_from_status(wait_status) = SIGTRAP
  /\ ptrace_event_from_status(wait_status) = 0

\* C2: when the tracee is resumed at a breakpoint address and stops with a
\* plain SIGTRAP for that breakpoint, original_syscallno in the cache, and in
\* the tracee, is what the cache held right before the resume
C2 ==
  AtBreakpointStop =>
    /\ registers.original_syscallno = orig_at_resume
    /\ Alive => tregs.original_syscallno = orig_at_resume

\* the kernel had reset original_syscallno to -1 and did_waitpid put 1 back
C2Witness ==
  /\ AtBreakpointStop /\ Alive
  /\ orig_at_resume = 1
  /\ registers = Reg(2, 1, 582, 770, 7)
  /\ tregs = registers

\* did_waitpid has committed a syscall-exit stop that is not a sigreturn exit
AtNonSigreturnExit ==
  /\ committed /\ ~fatal
  /\ kstop = "syscall_exit"
  /\ stop_sig_from_status(wait_status) = SYSCALL_TRAP
  /\ recording => ev # "sigreturn"

Normalized(r, a, r11_before) ==
  /\ r.flags = 582
  /\ a = "x86_64" => /\ r.cx = -1
                     /\ (r.r11 \div 256) % 2 = 0
                     /\ r.r11 % 256 = r11_before % 256
                     /\ r.r11 \div 512 = r11_before \div 512

\* C3: after a syscall-exit stop that is not a sigreturn exit, the cache and
\* the tracee have flags 0x246 and, on x86-64, rcx -1 and r11 with bit 8
\* cleared and its other bits as they were
C3 ==
  AtNonSigreturnExit =>
    /\ Normalized(registers, arch, r11_read)
    /\ Alive => Normalized(tregs, arch, r11_read)

\* an x86-64 exit stop where the trap flag, rcx and flags all had to change
C3Witness ==
  /\ AtNonSigreturnExit /\ Alive /\ ~after_exec
  /\ arch = "x86_64"
  /\ r11_read = 838
  /\ registers = Reg(1, -1, 582, 582, -1)
  /\ tregs = registers

\* C24, as stated, for a stop that is not a syscall-exit stop: whenever the
\* running tracee stops at the entry of a syscall, the wait that reads its
\* registers leaves rcx and r11 in the cache as read
C24Original ==
  (/\ ~fatal /\ ~is_stopped /\ tracee = "running"
   /\ ~detected_unexpected_exit /\ ~did_waitpid_skips_getregs(Cur)) =>
     \A k \in {x \in KStops : x.kind = "syscall_entry"}, r \in RegVals :
        (/\ CanStop(Cur, k, r, 0)
         /\ ~wait(Cur, k, r, 0, "none", FALSE, FALSE).fatal) =>
           /\ wait(Cur, k, r, 0, "none", FALSE, FALSE).registers.cx = r.cx
           /\ wait(Cur, k, r, 0, "none", FALSE, FALSE).registers.r11 = r.r11

\* C25: detected_unexpected_exit is set only in a recording session, by a
\* resume_execution whose waitpid(WNOHANG) took the exit event of a killed
\* tracee, which is then not continued; the next wait commits a
\* PTRACE_EVENT_EXIT stop by one did_waitpid, clears the flag and sets
\* seen_ptrace_exit_event; in a replay session the flag stays false
C25 ==
  [][/\ (~detected_unexpected_exit /\ detected_unexpected_exit') =>
          /\ recording /\ is_stopped /\ tracee = "exit_pending"
          /\ ~is_stopped' /\ tracee' = "stopped" /\ kstop' = "exit"
     /\ (detected_unexpected_exit /\ ~fatal') =>
          /\ ~detected_unexpected_exit'
          /\ is_stopped' /\ committed' /\ did_waitpid_calls' = 1
          /\ ptrace_event_from_status(wait_status') = PTRACE_EVENT_EXIT
          /\ seen_ptrace_exit_event'
     /\ ~recording => ~detected_unexpected_exit']_vars

\* a resume_execution that does not wait has found the exit event of the
\* killed tracee
C25Witness ==
  /\ detected_unexpected_exit /\ recording /\ ~fatal
  /\ ~is_stopped /\ tracee = "stopped" /\ kstop = "exit"

TicksAccumulate ==
  /\ ticks' >= ticks
  /\ ticks' - ticks = ticks_read' - ticks_read

C23Original ==
  (/\ ~fatal /\ ~is_stopped /\ tracee = "running"
   /\ address_of_last_execution_resume \in breakpoints) =>
     \A k \in {x \in KStops : x.kind = "trap"}, r \in RegVals :
        (/\ CanStop(Cur, k, r, 0)
         /\ r.ip # increment_by_bkpt_insn_length(address_of_last_execution_resume)) =>
           /\ ~wait(Cur, k, r, 0, "none", FALSE, FALSE).fatal
           /\ wait(Cur, k, r, 0, "none", FALSE, FALSE).is_stopped
           /\ wait(Cur, k, r, 0, "none", FALSE, FALSE).registers.original_syscallno
                = r.original_syscallno

\* C22, as stated: the did_waitpid that committed a stop skipped
\* PTRACE_GETREGS exactly if the stop it committed is a PTRACE_EVENT_EXEC stop
C22Original ==
  (committed /\ ~fatal) => (after_exec <=> ptrace_event(Cur) = PTRACE_EVENT_EXEC)

\* resume_execution(how, wait_how, RESUME_NO_TICKS, sig), blocking or not
NoTicksWait == ~fatal /\ DoWait(resume_execution(Cur, "RESUME_NO_TICKS"), TickInputs)

NoTicksNonblocking == ~fatal /\ Becomes(resume_execution(Cur, "RESUME_NO_TICKS"))

\* the wait of a resume_execution that started the counter: of a blocking
\* one, or a wait or try_wait that finds the counter started
TickedWait ==
  \/ ~fatal /\ DoWait(resume_execution(Cur, "RESUME_UNLIMITED_TICKS"), TickInputs)
  \/ hpc_started /\ (TicksWait \/ TicksTryWait)

WaitReturned == (TicksResumeExecutionWait \/ TicksWait) /\ ~fatal'

\* C16: a wait that returns has called did_waitpid exactly once, and the stop
\* is committed with the ticks read, the counter stopped and the register
\* cache refreshed
C16 ==
  [][WaitReturned =>
       /\ did_waitpid_calls' = 1
       /\ committed' /\ is_stopped'
       /\ ~hpc_started'
       /\ ticks' - ticks = ticks_read' - ticks_read
       /\ (tracee' \notin {"dead", "reaped"} /\ ~after_exec') => registers' = tregs']_vars

\* a blocking resume_execution has returned with a stop of a live tracee
\* and ticks read
C16Witness ==
  /\ did_waitpid_calls = 1 /\ committed /\ is_stopped /\ ~fatal
  /\ tracee = "stopped" /\ kstop = "syscall_entry" /\ ticks > 0 /\ registers = tregs

\* C17: resume_execution, regs() and set_regs() on a task that is not at a
\* committed stop abort the tracer: the tracee is not continued, no register is
\* written and no cached register value is returned; so each of them that
\* does not abort started at a committed stop
C17 ==
  (observed.op \in {"resume_execution", "regs", "set_regs"} /\ ~observed.was_stopped) =>
     /\ observed.aborted /\ fatal
     /\ ~observed.continued
     /\ ~observed.wrote
     /\ ~observed.returned

\* a second resume_execution, after one that left the tracee running with
\* no stop committed since, has aborted the tracer
C17Witness ==
  /\ observed.op = "resume_execution" /\ ~observed.was_stopped
  /\ observed.last_resume # 0
  /\ observed.aborted /\ fatal

\* C18, as stated: an operation of the task at a stop whose ptrace request
\* fails with ESRCH, the tracee having died, returns normally
C18Original ==
  (/\ observed.op \in {"set_regs", "extra_regs", "get_ptrace_eventmsg_pid",
                       "get_ptrace_eventmsg_seccomp_data"}
   /\ observed.was_stopped /\ observed.esrch) => ~observed.aborted

(***************************************************************************)
(* Properties of the debug registers.                                      *)
(***************************************************************************)
\* C5: when set_debug_regs has returned false on a tracee that is alive,
\* DR7 and DR6 are 0, whatever was programmed before the call
C5 ==
  (dbg_ret = "false" /\ ~fatal /\ Alive) => (dr[7] = ZeroWord /\ dr[6] = ZeroWord)

\* a call failed after it had written the address of slot 0, on a tracee
\* that had watchpoints enabled before
C5Witness ==
  /\ dbg_ret = "false" /\ ~fatal /\ Alive
  /\ dr[0] = Word(32, 0) /\ dr[1] = Word(16, 0)
  /\ dr[7] = ZeroWord /\ dr[6] = ZeroWord

(***************************************************************************)
(* Properties of the syscall buffer.                                       *)
(***************************************************************************)
HasBuffer(t) == Live(t) /\ tasks[t].syscallbuf_child # 0

\* destroy_buffers returns for task t, and the destructor of t
TornDownStep(t) == tasks[t].state = "live" /\ tasks'[t].state = "torn_down"

DeletedStep(t) == tasks[t].state \in {"live", "torn_down"} /\ tasks'[t].state = "destroyed"

\* page table k maps nothing in [a, a + n), and nor does the shadow sh
RangeUnmapped(k, a, n) == \A p \in Pages : InRange(p, a, n) => k[p] = NoPage

ShadowUnmapped(sh, a, n) == \A mp \in sh : mp.start + mp.len <= a \/ a + n <= mp.start

TraceeSideGone(t) ==
  /\ RangeUnmapped(kmem'[tasks[t].vm], tasks[t].syscallbuf_child, tasks[t].num_syscallbuf_bytes)
  /\ ShadowUnmapped(shadow'[tasks[t].vm], tasks[t].syscallbuf_child,
                    tasks[t].num_syscallbuf_bytes)

TracerSideGone(t) ==
  RangeUnmapped(tracer_maps', tasks[t].syscallbuf_hdr, tasks[t].num_syscallbuf_bytes)

C6Original ==
  \A t \in TaskIds :
    HasBuffer(t) =>
      \E mp \in shadow[tasks[t].vm] :
        mp.start = tasks[t].syscallbuf_child /\ mp.len = tasks[t].num_syscallbuf_bytes

\* the shadow still records the mapping init_syscall_buffer made for t
ShadowHasBuffer(t) ==
  \E mp \in shadow[tasks[t].vm] :
    /\ mp.start = tasks[t].syscallbuf_child
    /\ mp.len = tasks[t].num_syscallbuf_bytes
    /\ mp.obj = tasks[t].shmem
    /\ mp.off = 0

\* the tracer at syscallbuf_hdr and the tracee at syscallbuf_child map the
\* same pages of the same segment, num_syscallbuf_bytes of them
SameSegment(t) ==
  \A i \in 0 .. tasks[t].num_syscallbuf_bytes - 1 :
    /\ tracer_maps[tasks[t].syscallbuf_hdr + i] = [obj |-> tasks[t].shmem, off |-> i]
    /\ kmem[tasks[t].vm][tasks[t].syscallbuf_child + i] = tracer_maps[tasks[t].syscallbuf_hdr + i]

\* what a load of the header bytes at address a gives under page table k,
\* the objects holding c
View(c, k, a) == IF k[a].obj = 0 \/ k[a].off # 0 THEN Hdr(-1, -1) ELSE c[k[a].obj]

ForkWithBuffer ==
  /\ tasks["child"].state = "none"
  /\ tasks'["child"].state = "live"
  /\ tasks'["child"].vm # tasks["parent"].vm
  /\ tasks'["child"].same_session
  /\ tasks["parent"].syscallbuf_child # 0

\* the child's range is private anonymous memory, recorded so, with locked
\* set; nothing of the parent has changed
Unshared ==
  /\ \A i \in 0 .. tasks["parent"].num_syscallbuf_bytes - 1 :
        kmem'[2][tasks["parent"].syscallbuf_child + i] = [obj |-> AnonObj, off |-> i]
  /\ Mapping(tasks["parent"].syscallbuf_child, tasks["parent"].num_syscallbuf_bytes, "rw",
             {"MAP_PRIVATE", "MAP_FIXED", "MAP_ANONYMOUS"}, 0, AnonObj) \in shadow'[2]
  /\ View(content', kmem'[2], tasks["parent"].syscallbuf_child).locked = 1
  /\ tasks'["parent"] = tasks["parent"]
  /\ kmem'[1] = kmem[1]
  /\ shadow'[1] = shadow[1]
  /\ \A o \in 1 .. MaxNonce : content'[o] = content[o]

\* a step in which the bytes of the parent's buffer change
ParentBufferWritten ==
  /\ HasBuffer("parent")
  /\ kmem[1][tasks["parent"].syscallbuf_child].obj # 0
  /\ content'[kmem[1][tasks["parent"].syscallbuf_child].obj]
       # content[kmem[1][tasks["parent"].syscallbuf_child].obj]

\* the forked child sees at the parent's syscallbuf_child what it saw before
ChildUntouched ==
  (/\ Live("child") /\ tasks["child"].vm = 2 /\ tasks["child"].same_session
   /\ Mapping(tasks["parent"].syscallbuf_child, tasks["parent"].num_syscallbuf_bytes, "rw",
              {"MAP_PRIVATE", "MAP_FIXED", "MAP_ANONYMOUS"}, 0, AnonObj) \in shadow[2]) =>
    View(content', kmem'[2], tasks["parent"].syscallbuf_child)
      = View(content, kmem[2], tasks["parent"].syscallbuf_child)

\* C8: a clone without CLONE_VM, into the same session, of a task with a
\* buffer leaves the child with private anonymous memory at the buffer's range,
\* recorded in the child's AddressSpace, its locked byte 1, and the parent as it
\* was; and no later write to the parent's buffer shows in the child while the
\* child's AddressSpace records that memory
C8 ==
  [][(ForkWithBuffer => Unshared) /\ (ParentBufferWritten => ChildUntouched)]_vars

\* after the fork the parent's buffer holds a sentinel, the child's range does
\* not, and the child's locked byte is 1 while the parent's is 0
C8Witness ==
  /\ HasBuffer("parent") /\ Live("child")
  /\ tasks["child"].vm = 2 /\ tasks["child"].same_session
  /\ View(content, kmem[1], tasks["parent"].syscallbuf_child) = Hdr(0, 1)
  /\ View(content, kmem[2], tasks["parent"].syscallbuf_child) = Hdr(1, 0)

(***************************************************************************)
(* Properties of wait.                                                     *)
(***************************************************************************)
Returned == wpc = "idle" /\ wraw.valid /\ ~fatal

InterruptLooking ==
  /\ wraw.sent
  /\ ptrace_event_from_status(wraw.status) = PTRACE_EVENT_STOP
  /\ is_signal_triggered_by_ptrace_interrupt(WSTOPSIG(wraw.status))

TimeSliceStop ==
  /\ wait_status = StatusOf(0, TIME_SLICE_SIGNAL)
  /\ ptrace_event_from_status(wait_status) = 0
  /\ pending_siginfo = TimeSliceSiginfo

\* the stop reported by the kernel is committed as it is
CommittedUnchanged ==
  /\ wait_status = wraw.status
  /\ pending_sig_from_status(wraw.status) # 0 => pending_siginfo = KSiginfo(wraw)

EintrStep == wpc = "eintr" /\ wpc' # "eintr"

\* C26: in one call of wait PTRACE_INTERRUPT is sent at most once, and only
\* after waitpid failed with EINTR and the process was not found a zombie;
\* a later EINTR of the same wait goes back to waitpid without sending
C26 ==
  /\ [](wloop.interrupts <= 1)
  /\ [][/\ wloop'.interrupts > wloop.interrupts =>
             /\ EintrStep
             /\ ~is_zombie_process(Cur)
             /\ ~sent_interrupt /\ sent_interrupt'
             /\ wloop.interrupts = 0
        /\ (EintrStep /\ sent_interrupt /\ ~is_zombie_process(Cur)) =>
             /\ wpc' = "waitpid"
             /\ wloop'.interrupts = wloop.interrupts
             /\ interrupted' = interrupted]_vars

\* waitpid was interrupted again after the PTRACE_INTERRUPT of this wait
C26Witness ==
  /\ ~fatal /\ wpc = "eintr" /\ sent_interrupt /\ tracee = "running"
  /\ wloop.interrupts = 1 /\ wloop.arms = 2

\* C27 as stated: the timer is armed at most once in a call of wait
C27Original == wloop.arms <= 1

\* C28: when waitpid failed with EINTR and the process is found a zombie,
\* wait leaves the loop, sends no PTRACE_INTERRUPT in that iteration and
\* commits the synthesized PTRACE_EVENT_EXIT stop, and then
\* seen_ptrace_exit_event is true; otherwise it goes back to waitpid
C28 ==
  [][/\ (EintrStep /\ is_zombie_process(Cur)) =>
          /\ wpc' = "idle"
          /\ ~fatal'
          /\ wloop' = wloop
          /\ interrupted' = interrupted
          /\ committed' /\ is_stopped'
          /\ wait_status' = ptrace_exit_wait_status
          /\ ptrace_event_from_status(wait_status') = PTRACE_EVENT_EXIT
          /\ seen_ptrace_exit_event'
     /\ (EintrStep /\ ~is_zombie_process(Cur)) => wpc' = "waitpid"]_vars

\* wait returned the synthesized exit of a zombie it had interrupted before
C28Witness ==
  /\ Returned /\ wraw.kind = "zombie" /\ wraw.sent
  /\ wloop.interrupts = 1
  /\ wait_status = ptrace_exit_wait_status /\ seen_ptrace_exit_event

\* waitpid returns to wait with a status that is not a stop
NonStopReturn == wpc = "waitpid" /\ wpc' = "idle" /\ ~stopped_from_status(wraw'.status)

\* C29: a status of waitpid that is not a stop is committed as the
\* synthesized PTRACE_EVENT_EXIT stop if seen_ptrace_exit_event is false, and
\* then seen_ptrace_exit_event is true; if it is true already wait is fatal;
\* the wait_status committed is always a stop
C29 ==
  /\ []((committed /\ ~fatal) => stopped_from_status(wait_status))
  /\ [][NonStopReturn =>
          IF seen_ptrace_exit_event THEN fatal'
          ELSE /\ ~fatal'
               /\ committed'
               /\ wait_status' = ptrace_exit_wait_status
               /\ seen_ptrace_exit_event']_vars

\* wait returned the synthesized exit for a kill status of waitpid
C29Witness ==
  /\ Returned /\ wraw.kind = "killed" /\ ~stopped_from_status(wraw.status)
  /\ wait_status = ptrace_exit_wait_status /\ seen_ptrace_exit_event

\* C31 as stated: in one call of read_bytes_fallible or write_bytes_helper
\* the mem fd is reopened and the transfer tried again at most once
C31Original == xfer.reopens <= 1

\* the entry numbers of a sequence of descriptors, in its order
EntryNumbers(ta) == [i \in 1 .. Len(ta) |-> ta[i].entry_number]

\* C33: thread_areas holds at most one descriptor for an entry number, the
\* one written last for it, the entries are in the order in which their
\* numbers were first written, and post_exec leaves thread_areas empty
C33 ==
  /\ [](\A t \in TlsTasks :
          /\ \A i, j \in 1 .. Len(tls.areas[t]) :
                tls.areas[t][i].entry_number = tls.areas[t][j].entry_number => i = j
          /\ \A i \in 1 .. Len(tls.areas[t]) :
                tls.areas[t][i] = tls.writes[t].last[tls.areas[t][i].entry_number]
          /\ EntryNumbers(tls.areas[t]) = tls.writes[t].order)
  /\ [][tls'.op = "post_exec" => tls'.areas[tls'.who] = <<>>]_vars

\* a task with two thread areas had the descriptor of one entry replaced
C33Witness ==
  /\ tls.op = "set_thread_area" /\ tls.replaced
  /\ Len(tls.areas[tls.who]) = 2
  /\ tls.areas[tls.who][1].base_addr # tls.areas[tls.who][2].base_addr

\* desc in the place of the descriptor of its entry number, or at the end
Upserted(ta, desc) ==
  IF \E i \in 1 .. Len(ta) : ta[i].entry_number = desc.entry_number
  THEN [i \in 1 .. Len(ta) |-> IF ta[i].entry_number = desc.entry_number THEN desc ELSE ta[i]]
  ELSE Append(ta, desc)

\* the new task c of a clone step shares the aggregate of p (refs and sets
\* after the step) exactly if share, and is the only task of a new one
\* otherwise; the aggregate of p has the tasks it had (sets0, refs0 before)
CloneBinds(refs0, sets0, refs, sets, p, c, share) ==
  /\ (refs[c] = refs[p]) <=> share
  /\ ~share => sets[refs[c]] = {c}
  /\ sets[refs[p]] \ {c} = sets0[refs0[p]]
  /\ share => c \in sets[refs[p]]

\* what a clone step does, the descriptor being taken on the architectures
\* archs
CloneStepOn(archs) ==
  kin'.last.op = "clone" =>
    /\ CloneBinds(agg.tg, agg.tg_tasks, agg'.tg, agg'.tg_tasks, kin'.last.p, kin'.last.t,
                  kin'.last.share_tg)
    /\ CloneBinds(agg.as, agg.as_tasks, agg'.as, agg'.as_tasks, kin'.last.p, kin'.last.t,
                  kin'.last.share_vm)
    /\ CloneBinds(agg.fds, agg.fds_tasks, agg'.fds, agg'.fds_tasks, kin'.last.p, kin'.last.t,
                  kin'.last.share_files)
    /\ kin'.prname[kin'.last.t] = kin.prname[kin'.last.p]
    /\ kin'.areas[kin'.last.t] =
         IF kin'.last.set_tls /\ kin.arch \in archs
         THEN Upserted(kin.areas[kin'.last.p], kin'.last.desc)
         ELSE kin.areas[kin'.last.p]
    /\ kin'.prname[kin'.last.p] = kin.prname[kin'.last.p]
    /\ kin'.areas[kin'.last.p] = kin.areas[kin'.last.p]

\* C34 as stated: the new task of Task::clone shares the TaskGroup, the
\* AddressSpace and the FdTable of its parent exactly under the respective
\* flag and gets a new one otherwise, has the parent's prname and
\* thread_areas, the latter with the TLS descriptor upserted whenever
\* CLONE_SET_TLS is given, and the parent keeps what it had
C34Original == [][CloneStepOn(Archs)]_vars

\* C34: the same, the TLS descriptor being upserted under CLONE_SET_TLS on
\* x86 only; on x86_64 the tls argument is no descriptor and the new task has
\* the thread_areas of its parent
C34 == [][CloneStepOn({"x86"})]_vars

\* a clone on x86 with CLONE_SET_TLS replaced a descriptor the parent has,
\* sharing the task group and the files but not the address space, the
\* parent having set its name
C34Witness ==
  /\ kin.last.op = "clone" /\ kin.last.set_tls /\ kin.arch = "x86"
  /\ kin.last.share_tg /\ ~kin.last.share_vm /\ kin.last.share_files
  /\ Len(kin.areas[kin.last.p]) = 2 /\ Len(kin.areas[kin.last.t]) = 2
  /\ kin.areas[kin.last.t] # kin.areas[kin.last.p]
  /\ kin.prname[kin.last.t] # InitialPrname

\* C35 as stated: the destructor of a task that is not unstable and is the
\* last member of its task group, in a session that is not recording, reaps
\* the zombie with waitpid on the real tgid of the group, and no other
\* destructor does
C35Original ==
  reap.op = "dtor" =>
    (reap.waited <=> (~reap.unstable /\ reap.last_member /\ ~reap.recording))

\* C36: when compute_trap_reasons returns breakpoint, there is a breakpoint
\* at the ip less the length of the breakpoint instruction; with the
\* single-step bit set the siginfo is not read and breakpoint tells whether
\* there is a breakpoint at address_of_last_execution_resume; else, with a
\* watchpoint fired, breakpoint tells whether an EXEC watchpoint fired and a
\* breakpoint is at the ip less the length; else breakpoint tells whether
\* si_code is SI_KERNEL or TRAP_BRKPT
C36 ==
  (trap.done /\ ~trap.out.fatal) =>
    /\ trap.out.breakpoint => trap.in.ip - 1 \in trap.in.breakpoints
    /\ trap.in.singlestep_bit =>
         /\ ~trap.out.siginfo_read
         /\ trap.out.breakpoint <=> trap.in.last_resume \in trap.in.breakpoints
    /\ (~trap.in.singlestep_bit /\ trap.out.watchpoint) =>
         /\ ~trap.out.siginfo_read
         /\ trap.out.breakpoint <=>
               (trap.in.ip - 1 \in trap.in.exec_fired /\ trap.in.ip - 1 \in trap.in.breakpoints)
    /\ (~trap.in.singlestep_bit /\ ~trap.out.watchpoint) =>
         (trap.out.breakpoint <=> trap.in.si_code \in {SI_KERNEL, TRAP_BRKPT})

\* a single step onto a breakpoint whose siginfo says TRAP_TRACE
C36Witness ==
  /\ trap.done /\ ~trap.out.fatal
  /\ trap.in.singlestep_bit /\ trap.out.breakpoint
  /\ trap.in.si_code = 2
  /\ trap.in.breakpoints = {1, 2}

C38 ==
  /\ sp.filter => sp.attached /\ sp.resumed_by_tracer
  /\ sp.cpc \in {"work", "execed"} => sp.attached /\ sp.resumed_by_tracer
  /\ (sp.cpc = "filter" /\ sp.child = "running") => sp.attached /\ sp.resumed_by_tracer
  /\ sp.tpc = "fatal" => sp.child = "dead" /\ ~sp.filter

\* the child stopped itself before the tracer seized it, and has installed
\* the filter
C38Witness ==
  /\ sp.filter
  /\ sp.log = <<[ev |-> "stop", sig |-> SIGSTOP, blocking |-> TRUE]>>
  /\ sp.signals = 0

\* what of iovec i a writev of result bytes wrote: the bytes that are left
\* after the iovecs before it, up to its length
WrittenOf(iovecs, result, i) ==
  Min(result - Min(result, SumLen(iovecs, i - 1)), iovecs[i].iov_len)

\* the iovecs of which something was written, in their order
WrittenIovecs(iovecs, result) ==
  SelectSeq([i \in 1 .. Len(iovecs) |-> i], LAMBDA i : WrittenOf(iovecs, result, i) > 0)

RECURSIVE SumRanges(_, _)
SumRanges(ranges, n) == IF n = 0 THEN 0 ELSE SumRanges(ranges, n - 1) + ranges[n].len

\* C39: the ranges handed to did_write for a writev are, in the order of the
\* iovecs, one for each iovec of which something was written, from its
\* iov_base and as long as the lesser of the bytes still unaccounted and its
\* iov_len, none of length 0, their lengths adding up to the lesser of the
\* result and the sum of the iov_len; for a write there is the one range
\* (arg2, result) when result > 0 and none when it is 0
C39 ==
  /\ wr.call = "writev" =>
       /\ Len(wr.ranges) = Len(WrittenIovecs(wr.iovecs, wr.result))
       /\ \A k \in 1 .. Len(wr.ranges) :
             /\ wr.ranges[k].addr = wr.iovecs[WrittenIovecs(wr.iovecs, wr.result)[k]].iov_base
             /\ wr.ranges[k].len =
                  WrittenOf(wr.iovecs, wr.result, WrittenIovecs(wr.iovecs, wr.result)[k])
             /\ wr.ranges[k].len > 0
       /\ SumRanges(wr.ranges, Len(wr.ranges)) =
            Min(wr.result, SumLen(wr.iovecs, Len(wr.iovecs)))
  /\ wr.call = "write" =>
       wr.ranges = IF wr.result > 0 THEN <<[addr |-> wr.arg2, len |-> wr.result]>> ELSE <<>>

\* a writev of three iovecs, the first empty, that wrote the second and a
\* part of the third
C39Witness ==
  /\ wr.call = "writev" /\ Len(wr.iovecs) = 3
  /\ wr.iovecs[1].iov_len = 0 /\ wr.iovecs[2].iov_len = 1 /\ wr.iovecs[3].iov_len = 2
  /\ wr.result = 2
  /\ Len(wr.ranges) = 2 /\ wr.ranges[2].len = 1

\* C40: seen_ptrace_exit_event is false at first; a did_waitpid that commits
\* a stop with PTRACE_EVENT_EXIT leaves it true, and no operation that
\* returns makes it false again
C40 ==
  /\ (did_waitpid_calls = 0 /\ ~committed) => ~seen_ptrace_exit_event
  /\ [][/\ (~fatal' /\ is_stopped' /\ ~is_stopped
             /\ ptrace_event_from_status(wait_status') = PTRACE_EVENT_EXIT) =>
               seen_ptrace_exit_event'
        /\ (seen_ptrace_exit_event /\ ~fatal') => seen_ptrace_exit_event']_vars

\* the exit event was seen and the task has been resumed since
C40Witness ==
  /\ seen_ptrace_exit_event /\ ~fatal
  /\ ~is_stopped

\* C12 as stated: between operations a task that is not stopped has no valid
\* cache of the extra registers, also after extra_regs and set_extra_regs
C12Original == (~fatal /\ ~is_stopped) => ~extra_registers_known

\* C13: once destroy() was called, either the destructor ran to its end and
\* the task was unstable or had seen its PTRACE_EVENT_EXIT, or the call was
\* fatal; with both flags false it is fatal
C13 ==
  destroy_called =>
    \/ destroyed /\ ~fatal /\ (unstable \/ seen_ptrace_exit_event)
    \/ fatal /\ ~destroyed

\* a task is destroyed after the exit of its tracee was seen
C13Witness == destroyed /\ ~unstable /\ seen_ptrace_exit_event

(***************************************************************************)
(* Properties of the remote memory.                                        *)
(***************************************************************************)
\* the write before the read-back reported full success: it returned, and
\* left the caller's ok flag alone
WriteSucceeded == ~io.fatal /\ io.ok

\* C9 as stated: when write_bytes_helper reports full success and
\* read_bytes_fallible then reads the whole range, the bytes read are the
\* bytes written, with a mem fd and without
C9Original ==
  (io.op = "readback" /\ WriteSucceeded /\ io.ret = io.n) => io.got = io.buf

\* C10: a write through the mem fd leaves the protection of every page of the
\* tracee and every protection recorded in the AddressSpace as it was, also
\* when it had to add PROT_WRITE to pages without PROT_READ and PROT_WRITE
C10 ==
  [][/\ as_prot' = as_prot
     /\ (io'.op = "write" /\ io'.fd # "closed" /\ ~io'.fatal) => kprot' = kprot]_vars

\* a write through the mem fd over a PROT_NONE page went through in full, and
\* the page is PROT_NONE
C10Witness ==
  /\ io.op = "write" /\ io.fd = "open" /\ io.fixed # {} /\ io.ret = io.n /\ io.n > 0
  /\ \A p \in io.fixed : kprot[p] = "none"
  /\ Load(mem, io.addr, io.n) = io.buf

\* C19 as stated: a read or write that moved fewer bytes than asked for has
\* set the caller's ok flag to false, or without such a flag was fatal
C19Original ==
  (io.op \in {"read", "write"} /\ io.moved < io.n) =>
    IF io.has_ok THEN ~io.ok /\ ~io.fatal ELSE io.fatal

\* C32 as stated: a write of n bytes at addr without a mem fd returns the
\* number of bytes stored in the tracee's memory, stores them at addr and on,
\* and leaves every other byte as it was
C32Original ==
  [][(io'.op = "write" /\ io'.fd = "closed" /\ ~io'.fatal) =>
        /\ io'.ret = io'.moved
        /\ \A x \in Addrs :
              mem'[x] = IF io'.addr <= x /\ x < io'.addr + io'.ret
                        THEN io'.buf[x - io'.addr + 1]
                        ELSE mem[x]]_vars

(***************************************************************************)
(* Properties of the aggregates.                                           *)
(***************************************************************************)
\* t is in the task set of the aggregate ref and of no other
MemberOfJust(sets, ref, t) == \A a \in AggIds : (t \in sets[a]) <=> (a = ref)

\* C14: every live task is in the task set of the AddressSpace, the FdTable
\* and the TaskGroup it refers to and of no other; a destroyed task is in none
C14 ==
  \A t \in TaskNums :
    /\ t \in agg.live => agg.as[t] # 0 /\ agg.fds[t] # 0 /\ agg.tg[t] # 0
    /\ MemberOfJust(agg.as_tasks, agg.as[t], t)
    /\ MemberOfJust(agg.fds_tasks, agg.fds[t], t)
    /\ MemberOfJust(agg.tg_tasks, agg.tg[t], t)

\* two threads of one group share an address space and not the fd table,
\* beside a task with an address space of its own
C14Witness ==
  \E t, u, v \in agg.live :
    /\ t # u /\ agg.tg[t] = agg.tg[u] /\ agg.as[t] = agg.as[u] /\ agg.fds[t] # agg.fds[u]
    /\ agg.as[v] # agg.as[t]

(***************************************************************************)
(* Properties of prname.                                                   *)
(***************************************************************************)
\* C15 as stated: prname never has more than 15 characters, whichever
\* operation set it last
C15Original == \A t \in DOMAIN prname : Len(prname[t]) <= PrnameBufSize - 1

(***************************************************************************)
(* Properties of the hook at a syscall exit.                               *)
(***************************************************************************)
\* C20: on_syscall_exit of a failed syscall other than mprotect leaves the
\* shadow of the address space, the FdTable and the task's reference to it,
\* thread_areas and prname as they are; for a failed mprotect the shadow gets
\* protect(addr, len, prot)
C20 ==
  /\ (last_call.failed /\ ~last_call.mprotect) => last_call.kept
  /\ (last_call.failed /\ last_call.mprotect) => last_call.protected

\* a failed mprotect over a range with a hole has made the shadow of the
\* syscall buffer's first page read-only
C20Witness ==
  /\ last_call.mprotect /\ last_call.failed /\ ~last_call.kept
  /\ \E mp \in shadow[tasks["parent"].vm] : mp.prot = "r"

=============================================================================
